---------------------------- MODULE Spec2Model ----------------------------
(***************************************************************************)
(* Model of libmme1536: the user-space driver of the mont_mult1536         *)
(* Montgomery multiplier / modular exponentiation core.                    *)
(*                                                                         *)
(* Widths are scaled: a machine word has WordBits = 2*HalfBits bits (32 in *)
(* the driver) and the low pipeline part has WordsLow words (16 in the     *)
(* driver).  Everything else (the 1:2:3 ratio of the three widths, the     *)
(* address map, the codec, the order of the hardware steps) is the         *)
(* driver's.                                                               *)
(***************************************************************************)
EXTENDS Integers, Sequences, FiniteSets, TLC

(***************************************************************************)
(* Bounds of the model.                                                    *)
(***************************************************************************)
HalfBits == 1
WordsLow == 1
ModGap == 3
OperandGap == 2
MaxExpWords == 2
ExpGap == 1
MaxOps == 2
MaxCodecOps == 2
MaxIssues == 1
MaxRuns == 1
NumPatterns == 2

(***************************************************************************)
(* Constants of libmme1536_v1.h.                                           *)
(***************************************************************************)
LOW_PART == 1
HIGH_PART == 2
TOT_PIPELINE == 3

OPERAND_0 == 0
OPERAND_1 == 1
OPERAND_2 == 2
OPERAND_3 == 3
MODULUS == 4

WordBits == 2 * HalfBits
WordBase == 2 ^ WordBits
HalfBase == 2 ^ HalfBits
Word == 0 .. (WordBase - 1)

BITS_LOW == WordsLow * WordBits
BITS_HIGH == 2 * BITS_LOW
BITS_TOT == BITS_LOW + BITS_HIGH

WORDS_LOW == BITS_LOW \div WordBits
WORDS_HIGH == BITS_HIGH \div WordBits
WORDS_TOT == BITS_TOT \div WordBits

ADDR_STEP == 4
HIGH_OFFSET == WORDS_LOW * ADDR_STEP
OP0_OFFSET == 4096
OP1_OFFSET == 8192
OP2_OFFSET == 12288
OP3_OFFSET == 16384
M_OFFSET == 0
FIFO_OFFSET == 20480

P_SEL_BITS == 30
DEST_BITS == 28
X_OP_BITS == 26
Y_OP_BITS == 24

Widths == {BITS_LOW, BITS_HIGH, BITS_TOT}
Operands == {OPERAND_0, OPERAND_1, OPERAND_2, OPERAND_3}
Slots == Operands \cup {MODULUS}

(***************************************************************************)
(* C arrays of int are functions from 0..len-1 to words.                   *)
(***************************************************************************)
Buffer(len) == [0 .. (len - 1) -> Word]

ZeroBuffer(len) == [i \in 0 .. (len - 1) |-> 0]

\* static int one[WORDS_TOT] = {1, 0, ..., 0}
one == [i \in 0 .. (WORDS_TOT - 1) |-> IF i = 0 THEN 1 ELSE 0]

\* Memory that was allocated and never written holds any words; the model
\* takes the two fills with one repeated word, all bits clear or all bits set.
Junk(len) == {[i \in 0 .. (len - 1) |-> w] : w \in {0, WordBase - 1}}

\* The len little-endian words of v.
ToWords(v, len) == [i \in 0 .. (len - 1) |-> (v \div (WordBase ^ i)) % WordBase]

RECURSIVE FromWords(_, _)
\* The value of the first cnt words of buf, least significant word first.
FromWords(buf, cnt) ==
    IF cnt = 0 THEN 0
    ELSE FromWords(buf, cnt - 1) + buf[cnt - 1] * (WordBase ^ (cnt - 1))

RECURSIVE NumWords(_)
\* The number of words of v: 0 for 0.
NumWords(v) == IF v = 0 THEN 0 ELSE 1 + NumWords(v \div WordBase)

(***************************************************************************)
(* GMP, as the driver uses it.                                             *)
(***************************************************************************)
\* The modular product mpz_powm_ui is built on.
MulMod(a, b, m) == ((a % m) * (b % m)) % m

\* mpz_powm_ui(rop, base, exp, mod): base^exp mod mod.
mpz_powm_ui(base, exp, mod) == (base ^ exp) % mod

\* mpz_import(rop, count, -1, sizeof(int), 0, 0, op): count words, least
\* significant first.
mpz_import(count, op) == FromWords(op, count)

\* mpz_export(rop, NULL, -1, sizeof(int), 0, 0, op): writes the words of op,
\* as many as op has and no more (none for 0); the rest of rop is untouched.
mpz_export(rop, op) ==
    [i \in DOMAIN rop |-> IF i < NumWords(op) THEN ToWords(op, NumWords(op))[i]
                          ELSE rop[i]]

\* ComputeR2 raising 2 to n, not to 2n.
ComputeR2_SingleWidth(R2, m, n) ==
    mpz_export(R2, mpz_powm_ui(2, n, mpz_import(n \div WordBits, m)))

\* MME1536_ComputeR2(R2, m, n): the buffer R2 after the call.
MME1536_ComputeR2(R2, m, n) ==
    mpz_export(R2, mpz_powm_ui(2, 2 * n, mpz_import(n \div WordBits, m)))

(***************************************************************************)
(* The control register and the C ints that are stored to it: RegBits      *)
(* bits, bit 0 the least significant, a negative int in two's complement.  *)
(* A word is the set of the positions of its bits that are 1.              *)
(***************************************************************************)
RegBits == 32

Bit == 0 .. (RegBits - 1)

RECURSIVE BitsFrom(_, _)
\* The bits of a non-negative int v, its bit 0 standing at position i.
BitsFrom(v, i) ==
    IF v = 0 THEN {}
    ELSE (IF v % 2 = 1 THEN {i} ELSE {}) \cup BitsFrom(v \div 2, i + 1)

\* The word of the int v: for a negative v the complement of the word of
\* -v - 1.
Bits(v) == IF v >= 0 THEN BitsFrom(v, 0) ELSE Bit \ BitsFrom((-v) - 1, 0)

\* a << k; the bits shifted out at the top are lost.
ShiftLeft(a, k) == {i + k : i \in a} \cap Bit

\* a & b
BitAnd(a, b) == a \cap b

\* a | b
BitOr(a, b) == a \cup b

\* Bit i of the word a.
TestBit(a, i) == IF i \in a THEN 1 ELSE 0

\* The masks of the start functions: 0x003fffff, 0x00800000, 0xff7fffff and
\* 0x00c00000.
x003fffff == Bits(4194303)
x00800000 == Bits(8388608)
xff7fffff == Bits(-8388609)
x00c00000 == Bits(12582912)

\* The two-bit field of a word whose lower bit is bit at.
Field(a, at) == TestBit(a, at) + 2 * TestBit(a, at + 1)

(***************************************************************************)
(* The core, as the driver sees it: the data region (five slots of         *)
(* WORDS_TOT words and the exponent FIFO port), the control register, and  *)
(* the step the core was last started on.  log lists the accesses the      *)
(* driver made to the two regions and its waits, in the order it made them.*)
(***************************************************************************)
SlotOffset(operand) ==
    CASE operand = OPERAND_0 -> OP0_OFFSET
      [] operand = OPERAND_1 -> OP1_OFFSET
      [] operand = OPERAND_2 -> OP2_OFFSET
      [] operand = OPERAND_3 -> OP3_OFFSET
      [] operand = MODULUS -> M_OFFSET

Addr == {SlotOffset(s) + ADDR_STEP * w : s \in Slots, w \in 0 .. (WORDS_TOT - 1)}

NoStep == [kind |-> "none"]

\* The entries of log.
ControlWrite(word) == [op |-> "control", word |-> word]
DataWrite(addr, val) == [op |-> "write", addr |-> addr, val |-> val]
DataRead(addr, val) == [op |-> "read", addr |-> addr, val |-> val]
Waited(outcome) == [op |-> "wait", outcome |-> outcome]

\* The core at power-up: memory and register cleared, nothing started.
HwReset ==
    [mem |-> [a \in Addr |-> 0],
     ctrl |-> Bits(0),
     fifo |-> << >>,
     step |-> NoStep,
     log |-> << >>]

PartFirst(p_sel) == IF p_sel = HIGH_PART THEN WORDS_LOW ELSE 0

PartLen(p_sel) ==
    CASE p_sel = LOW_PART -> WORDS_LOW
      [] p_sel = HIGH_PART -> WORDS_HIGH
      [] p_sel = TOT_PIPELINE -> WORDS_TOT
      [] OTHER -> 0

PartBits(p_sel) == PartLen(p_sel) * WordBits

\* The integer a slot holds in the words of part p_sel.
SlotValue(mem, operand, p_sel) ==
    FromWords([i \in 0 .. (PartLen(p_sel) - 1) |->
                  mem[SlotOffset(operand) + ADDR_STEP * (PartFirst(p_sel) + i)]],
              PartLen(p_sel))

RECURSIVE StoreWords(_, _, _, _)
\* mem with the first words words of data written from start_offset on,
\* ADDR_STEP apart.
StoreWords(mem, data, start_offset, words) ==
    IF words = 0 THEN mem
    ELSE [StoreWords(mem, data, start_offset, words - 1)
             EXCEPT ![start_offset + ADDR_STEP * (words - 1)] = data[words - 1]]

\* mem with the words of part p_sel of a slot set to v.
SlotStore(mem, operand, p_sel, v) ==
    StoreWords(mem, ToWords(v, PartLen(p_sel)),
               SlotOffset(operand) + ADDR_STEP * PartFirst(p_sel), PartLen(p_sel))

\* R^(-1) mod m for R = 2^bits and odd m.
MontInverse(m, bits) == CHOOSE r \in 0 .. (m - 1) : (r * ((2 ^ bits) % m)) % m = 1 % m

\* One Montgomery multiplication: x * y * R^(-1) mod m, with R = 2^bits.
MontMul(x, y, m, bits) == (((x * y) % m) * MontInverse(m, bits)) % m

RECURSIVE LadderBits(_, _, _, _, _, _, _, _)
\* The square-and-multiply ladder over the bit pairs j-1 .. 0 of one FIFO
\* entry: bit j of the low half is e0's, bit j of the high half is e1's.
\* A zero accumulator stays zero.
LadderBits(acc, entry, j, gt0, gt1, gt01, m, bits) ==
    IF j = 0 \/ acc = 0 THEN acc
    ELSE LET b0 == ((entry % HalfBase) \div (2 ^ (j - 1))) % 2
             b1 == ((entry \div HalfBase) \div (2 ^ (j - 1))) % 2
             sq == MontMul(acc, acc, m, bits)
             nx == CASE b0 = 1 /\ b1 = 0 -> MontMul(sq, gt0, m, bits)
                     [] b0 = 0 /\ b1 = 1 -> MontMul(sq, gt1, m, bits)
                     [] b0 = 1 /\ b1 = 1 -> MontMul(sq, gt01, m, bits)
                     [] OTHER -> sq
         IN LadderBits(nx, entry, j - 1, gt0, gt1, gt01, m, bits)

RECURSIVE Ladder(_, _, _, _, _, _, _)
Ladder(acc, fifo, gt0, gt1, gt01, m, bits) ==
    IF fifo = << >> \/ acc = 0 THEN acc
    ELSE Ladder(LadderBits(acc, Head(fifo), HalfBits, gt0, gt1, gt01, m, bits),
                Tail(fifo), gt0, gt1, gt01, m, bits)

\* The core finishes the step it was started on.  A single step stores
\* slot[x]*slot[y]*R^(-1) mod m into the destination slot; the auto-run runs
\* the ladder over the FIFO with slots 0, 1, 2 as multipliers and slot 3 as
\* accumulator.  With no odd modulus in the selected part nothing is stored.
HwComplete(h) ==
    LET s == h.step
        m == SlotValue(h.mem, MODULUS, s.p_sel)
        bits == PartBits(s.p_sel)
        V(op) == SlotValue(h.mem, op, s.p_sel)
    IN  IF s.kind = "none" THEN h
        ELSE IF m % 2 = 0 THEN [h EXCEPT !.step = NoStep]
        ELSE IF s.kind = "single"
        THEN [h EXCEPT !.step = NoStep,
                       !.mem = SlotStore(h.mem, s.dest, s.p_sel,
                                         MontMul(V(s.x_op), V(s.y_op), m, bits))]
        ELSE [h EXCEPT !.step = NoStep,
                       !.fifo = << >>,
                       !.mem = SlotStore(h.mem, OPERAND_3, s.p_sel,
                                         Ladder(V(OPERAND_3), h.fifo, V(OPERAND_0),
                                                V(OPERAND_1), V(OPERAND_2), m, bits))]

\* A write to the control register: the core latches a step when the start
\* bit, bit 23, is written as 1; bit 22 selects the auto-run, and the fields
\* at P_SEL_BITS, DEST_BITS, X_OP_BITS and Y_OP_BITS the part, the destination
\* and the two factors.
WriteControl(h, c) ==
    [h EXCEPT !.ctrl = c,
              !.step = IF TestBit(c, 23) = 1
                       THEN IF TestBit(c, 22) = 1
                            THEN [kind |-> "auto", p_sel |-> Field(c, P_SEL_BITS)]
                            ELSE [kind |-> "single", p_sel |-> Field(c, P_SEL_BITS),
                                  dest |-> Field(c, DEST_BITS),
                                  x_op |-> Field(c, X_OP_BITS),
                                  y_op |-> Field(c, Y_OP_BITS)]
                       ELSE h.step,
              !.log = Append(@, ControlWrite(c))]

(***************************************************************************)
(* The driver's primitives.  h is the core, s the MME1536 structure        *)
(* (n, words, part, R2); each operator gives what the call leaves behind.  *)
(***************************************************************************)
\* MME1536_SetData: words words of data to start_offset, ADDR_STEP apart.
MME1536_SetData(h, data, start_offset, words) ==
    [h EXCEPT !.mem = StoreWords(h.mem, data, start_offset, words),
              !.log = @ \o [word \in 1 .. words |->
                                   DataWrite(start_offset + ADDR_STEP * (word - 1),
                                             data[word - 1])]]

\* MME1536_GetData: the destination bits go to the control register, then
\* words words are read from offset_start on.
MME1536_GetData(h, offset_start, operand, words) ==
    LET control == BitOr(Bits(0), ShiftLeft(Bits(operand), DEST_BITS))
        g == WriteControl(h, control)
    IN [hw |-> [g EXCEPT !.log = @ \o [word \in 1 .. words |->
                                   DataRead(offset_start + ADDR_STEP * (word - 1),
                                            h.mem[offset_start + ADDR_STEP * (word - 1)])]],
        buffer |-> [word \in 0 .. (words - 1) |-> h.mem[offset_start + ADDR_STEP * word]]]

\* The 48 words SetOperand hands to SetData for a supported length.
PaddedOperand(operand_data, length) ==
    CASE length = BITS_LOW ->
            [word \in 0 .. (WORDS_TOT - 1) |->
                IF word < WORDS_LOW THEN operand_data[word] ELSE 0]
      [] length = BITS_HIGH ->
            [word \in 0 .. (WORDS_TOT - 1) |->
                IF word >= WORDS_LOW THEN operand_data[word - WORDS_LOW] ELSE 0]
      [] length = BITS_TOT ->
            [word \in 0 .. (WORDS_TOT - 1) |-> operand_data[word]]

\* SetOperand writing the words of the operand only, not the whole slot.
SetOperand_PartOnly(h, operand_data, operand, length) ==
    IF operand \notin Slots THEN [ret |-> -1, hw |-> h]
    ELSE IF length \notin Widths THEN [ret |-> -1, hw |-> h]
    ELSE [ret |-> 0,
          hw |-> MME1536_SetData(h, operand_data,
                                 SlotOffset(operand)
                                     + (IF length = BITS_HIGH THEN HIGH_OFFSET ELSE 0),
                                 length \div WordBits)]

MME1536_SetOperand(h, operand_data, operand, length) ==
    IF operand \notin Slots THEN [ret |-> -1, hw |-> h]
    ELSE IF length \notin Widths THEN [ret |-> -1, hw |-> h]
    ELSE [ret |-> 0,
          hw |-> MME1536_SetData(h, PaddedOperand(operand_data, length),
                                 SlotOffset(operand), WORDS_TOT)]

MME1536_SetOperand_m(s, h, operand_data, operand) ==
    IF operand \notin Slots THEN [ret |-> -1, hw |-> h]
    ELSE IF s.n \notin Widths THEN [ret |-> -1, hw |-> h]
    ELSE [ret |-> 0,
          hw |-> MME1536_SetData(h, PaddedOperand(operand_data, s.n),
                                 SlotOffset(operand), WORDS_TOT)]

\* GetOperand taking the modulus slot as well.
GetOperand_WithModulus(h, operand, length) ==
    IF operand \notin Slots THEN [ret |-> -1, hw |-> h, buffer |-> << >>]
    ELSE IF length \notin Widths THEN [ret |-> -1, hw |-> h, buffer |-> << >>]
    ELSE LET address_offset == IF length = BITS_HIGH
                               THEN SlotOffset(operand) + HIGH_OFFSET
                               ELSE SlotOffset(operand)
             words == CASE length = BITS_LOW -> WORDS_LOW
                        [] length = BITS_HIGH -> WORDS_HIGH
                        [] length = BITS_TOT -> WORDS_TOT
             g == MME1536_GetData(h, address_offset, operand, words)
         IN [ret |-> 0, hw |-> g.hw, buffer |-> g.buffer]

MME1536_GetOperand(h, operand, length) ==
    IF operand \notin Operands THEN [ret |-> -1, hw |-> h, buffer |-> << >>]
    ELSE IF length \notin Widths THEN [ret |-> -1, hw |-> h, buffer |-> << >>]
    ELSE LET address_offset == IF length = BITS_HIGH
                               THEN SlotOffset(operand) + HIGH_OFFSET
                               ELSE SlotOffset(operand)
             words == CASE length = BITS_LOW -> WORDS_LOW
                        [] length = BITS_HIGH -> WORDS_HIGH
                        [] length = BITS_TOT -> WORDS_TOT
             g == MME1536_GetData(h, address_offset, operand, words)
         IN [ret |-> 0, hw |-> g.hw, buffer |-> g.buffer]

\* GetOperand_m reading from the start of the slot whatever n is.
GetOperand_m_FromSlotStart(s, h, operand) ==
    IF operand \notin Operands THEN [ret |-> -1, hw |-> h, buffer |-> << >>]
    ELSE LET g == MME1536_GetData(h, SlotOffset(operand), operand, s.words)
         IN [ret |-> 0, hw |-> g.hw, buffer |-> g.buffer]

MME1536_GetOperand_m(s, h, operand) ==
    IF operand \notin Operands THEN [ret |-> -1, hw |-> h, buffer |-> << >>]
    ELSE LET address_offset == IF s.n = BITS_HIGH
                               THEN SlotOffset(operand) + HIGH_OFFSET
                               ELSE SlotOffset(operand)
             g == MME1536_GetData(h, address_offset, operand, s.words)
         IN [ret |-> 0, hw |-> g.hw, buffer |-> g.buffer]

\* control |= (p_sel << P_SEL_BITS) | (destination << DEST_BITS)
\*          | (x_op << X_OP_BITS) | (y_op << Y_OP_BITS) | 0x00800000
\* The shifts are those of a 32-bit int: what leaves bit 31 is lost.
ControlWord(control, p_sel, destination, x_op, y_op) ==
    BitOr(control,
          BitOr(BitOr(BitOr(BitOr(ShiftLeft(Bits(p_sel), P_SEL_BITS),
                                  ShiftLeft(Bits(destination), DEST_BITS)),
                            ShiftLeft(Bits(x_op), X_OP_BITS)),
                      ShiftLeft(Bits(y_op), Y_OP_BITS)),
                x00800000))

\* StartSingle keeping the low 23 bits of the register, auto-run included.
StartSingle_KeepAuto(h, p_sel, destination, x_op, y_op) ==
    LET control == ControlWord(BitAnd(h.ctrl, Bits(8388607)), p_sel, destination, x_op, y_op)
    IN WriteControl(WriteControl(h, control), BitAnd(control, xff7fffff))

\* MME1536_StartSingle: the register is read, its low 22 bits are kept, the
\* fields and the start bit are set, and the word is written again with the
\* start bit cleared.
MME1536_StartSingle(h, p_sel, destination, x_op, y_op) ==
    LET control == ControlWord(BitAnd(h.ctrl, x003fffff), p_sel, destination, x_op, y_op)
    IN WriteControl(WriteControl(h, control), BitAnd(control, xff7fffff))

\* StartSingle_m writing the word without its start bit both times.
StartSingle_m_NoStart(s, h, destination, x_op, y_op) ==
    LET control == ControlWord(BitAnd(h.ctrl, x003fffff), s.part, destination, x_op, y_op)
    IN WriteControl(WriteControl(h, BitAnd(control, xff7fffff)),
                    BitAnd(control, xff7fffff))

MME1536_StartSingle_m(s, h, destination, x_op, y_op) ==
    LET control == ControlWord(BitAnd(h.ctrl, x003fffff), s.part, destination, x_op, y_op)
    IN WriteControl(WriteControl(h, control), BitAnd(control, xff7fffff))

\* StartAuto clearing the auto-run bit together with the start bit.
StartAuto_ClearBoth(h, p_sel) ==
    LET control == BitOr(x00c00000, ShiftLeft(Bits(p_sel), P_SEL_BITS))
    IN WriteControl(WriteControl(h, control), BitAnd(control, Bit \ {22, 23}))

MME1536_StartAuto(h, p_sel) ==
    LET control == BitOr(x00c00000, ShiftLeft(Bits(p_sel), P_SEL_BITS))
    IN WriteControl(WriteControl(h, control), BitAnd(control, xff7fffff))

MME1536_StartAuto_m(s, h) ==
    LET control == BitOr(x00c00000, ShiftLeft(Bits(s.part), P_SEL_BITS))
    IN WriteControl(WriteControl(h, control), BitAnd(control, xff7fffff))

\* The upper and the lower half of a word.
UpperHalf(w) == w \div HalfBase
LowerHalf(w) == w % HalfBase

\* A null int pointer: no buffer has its domain.
NULL == <<"NULL">>

RECURSIVE FeedExponent(_, _, _, _)
\* The loop of MME1536_SetExponent from word i down to word 0: two FIFO
\* entries per word.
FeedExponent(fifo, e0, e1, i) ==
    IF i < 0 THEN fifo
    ELSE LET first == IF e1 = NULL THEN UpperHalf(e0[i])
                      ELSE UpperHalf(e1[i]) * HalfBase + UpperHalf(e0[i])
             second == IF e1 = NULL THEN LowerHalf(e0[i])
                       ELSE LowerHalf(e1[i]) * HalfBase + LowerHalf(e0[i])
         IN FeedExponent(Append(Append(fifo, first), second), e0, e1, i - 1)

RECURSIVE FeedExponent_LowerFirst(_, _, _, _)
\* The same loop writing each word's lower halves before its upper halves.
FeedExponent_LowerFirst(fifo, e0, e1, i) ==
    IF i < 0 THEN fifo
    ELSE LET first == IF e1 = NULL THEN UpperHalf(e0[i])
                      ELSE UpperHalf(e1[i]) * HalfBase + UpperHalf(e0[i])
             second == IF e1 = NULL THEN LowerHalf(e0[i])
                       ELSE LowerHalf(e1[i]) * HalfBase + LowerHalf(e0[i])
         IN FeedExponent_LowerFirst(Append(Append(fifo, second), first), e0, e1, i - 1)

RECURSIVE FeedExponent_LeftJustified(_, _, _, _)
\* The same loop leaving a lone exponent's upper half where the word has it.
FeedExponent_LeftJustified(fifo, e0, e1, i) ==
    IF i < 0 THEN fifo
    ELSE LET first == IF e1 = NULL THEN UpperHalf(e0[i]) * HalfBase
                      ELSE UpperHalf(e1[i]) * HalfBase + UpperHalf(e0[i])
             second == IF e1 = NULL THEN LowerHalf(e0[i])
                       ELSE LowerHalf(e1[i]) * HalfBase + LowerHalf(e0[i])
         IN FeedExponent_LeftJustified(Append(Append(fifo, first), second), e0, e1, i - 1)

\* The core and the log after the entries were written to the FIFO port.
FifoWrites(h, entries) ==
    [h EXCEPT !.fifo = @ \o entries,
              !.log = @ \o [k \in 1 .. Len(entries) |->
                                   DataWrite(FIFO_OFFSET, entries[k])]]

SetExponent_LowerFirst(h, e0, e1, t) ==
    IF t % WordBits # 0 THEN h
    ELSE FifoWrites(h, FeedExponent_LowerFirst(<< >>, e0, e1, (t \div WordBits) - 1))

SetExponent_LeftJustified(h, e0, e1, t) ==
    IF t % WordBits # 0 THEN h
    ELSE FifoWrites(h, FeedExponent_LeftJustified(<< >>, e0, e1, (t \div WordBits) - 1))

MME1536_SetExponent(h, e0, e1, t) ==
    IF t % WordBits # 0 THEN h
    ELSE FifoWrites(h, FeedExponent(<< >>, e0, e1, (t \div WordBits) - 1))

\* How a call of MME1536_WaitUntilReady can end: the step that was started
\* has completed ("ready"); the wait timed out and the step completes before
\* the driver touches the core again ("late"); the wait timed out and the
\* step is still unfinished when the driver goes on ("never").
WaitOutcomes == {"ready", "late", "never"}

\* The core after a call of MME1536_WaitUntilReady that ended with outcome.
WaitUntilReady(h, outcome) ==
    IF outcome = "never" THEN [h EXCEPT !.log = Append(@, Waited(outcome))]
    ELSE [HwComplete(h) EXCEPT !.log = Append(@, Waited(outcome))]


(***************************************************************************)
(* The driver's operations.                                                *)
(***************************************************************************)
PartOf(n, otherwise) ==
    CASE n = BITS_LOW -> LOW_PART
      [] n = BITS_HIGH -> HIGH_PART
      [] n = BITS_TOT -> TOT_PIPELINE
      [] OTHER -> otherwise

\* UpdateModulus leaving out the loop that clears R2.
UpdateModulus_NoClear(s, h, m, n) ==
    LET R2 == MME1536_ComputeR2(s.R2, m, n)
    IN [s |-> [s EXCEPT !.part = PartOf(n, s.part), !.n = n,
                        !.words = n \div WordBits, !.R2 = R2],
        hw |-> MME1536_SetOperand(h, m, MODULUS, n).hw]

\* MME1536_UpdateModulus(device_instance, m, n).
MME1536_UpdateModulus(s, h, m, n) ==
    LET R2 == MME1536_ComputeR2(ZeroBuffer(WORDS_TOT), m, n)
    IN [s |-> [s EXCEPT !.part = PartOf(n, s.part), !.n = n,
                        !.words = n \div WordBits, !.R2 = R2],
        hw |-> MME1536_SetOperand(h, m, MODULUS, n).hw]

\* Every wait of a call ending with the step completed.
AllReady == [k \in 1 .. 6 |-> "ready"]

\* Multiply_m leaving out the multiplication by R2.
Multiply_m_NoR2(s, h, x, y, waits) ==
    LET h1 == MME1536_SetOperand_m(s, h, x, OPERAND_0).hw
        h2 == MME1536_SetOperand_m(s, h1, y, OPERAND_1).hw
        h3 == MME1536_SetOperand_m(s, h2, s.R2, OPERAND_2).hw
        h4 == WaitUntilReady(
                  MME1536_StartSingle_m(s, h3, OPERAND_3, OPERAND_0, OPERAND_1),
                  waits[1])
        g == MME1536_GetOperand_m(s, h4, OPERAND_3)
    IN [after |-> <<h1, h2, h3, h4>>, hw |-> g.hw, result |-> g.buffer]

\* MME1536_Multiply_m(device_instance, result, x, y), its k-th wait ending as
\* waits[k]: the core after each call it makes, the core at return, and the
\* result buffer.
MME1536_Multiply_m(s, h, x, y, waits) ==
    LET h1 == MME1536_SetOperand_m(s, h, x, OPERAND_0).hw
        h2 == MME1536_SetOperand_m(s, h1, y, OPERAND_1).hw
        h3 == MME1536_SetOperand_m(s, h2, s.R2, OPERAND_2).hw
        h4 == WaitUntilReady(
                  MME1536_StartSingle_m(s, h3, OPERAND_3, OPERAND_0, OPERAND_1),
                  waits[1])
        h5 == WaitUntilReady(
                  MME1536_StartSingle_m(s, h4, OPERAND_3, OPERAND_2, OPERAND_3),
                  waits[2])
        g == MME1536_GetOperand_m(s, h5, OPERAND_3)
    IN [after |-> <<h1, h2, h3, h4, h5>>, hw |-> g.hw, result |-> g.buffer]

\* Exp_m starting the auto-run before it feeds the exponent.
Exp_m_FeedAfterStart(s, h, g, e, t, waits) ==
    LET h1 == MME1536_SetOperand_m(s, h, g, OPERAND_0).hw
        h2 == MME1536_SetOperand_m(s, h1, s.R2, OPERAND_1).hw
        h3 == MME1536_SetOperand_m(s, h2, one, OPERAND_2).hw
        h4 == WaitUntilReady(
                  MME1536_StartSingle_m(s, h3, OPERAND_0, OPERAND_0, OPERAND_1),
                  waits[1])
        h5 == WaitUntilReady(
                  MME1536_StartSingle_m(s, h4, OPERAND_3, OPERAND_2, OPERAND_1),
                  waits[2])
        h6 == MME1536_StartAuto_m(s, h5)
        h7 == WaitUntilReady(MME1536_SetExponent(h6, e, NULL, t), waits[3])
        h8 == WaitUntilReady(
                  MME1536_StartSingle_m(s, h7, OPERAND_3, OPERAND_2, OPERAND_3),
                  waits[4])
        r == MME1536_GetOperand_m(s, h8, OPERAND_3)
    IN [after |-> <<h1, h2, h3, h4, h5, h6, h7, h8>>,
        hw |-> r.hw, result |-> r.buffer]

\* Exp_m giving up at the first wait that does not end with the step done.
Exp_m_AbortOnTimeout(s, h, g, e, t, waits) ==
    LET h1 == MME1536_SetOperand_m(s, h, g, OPERAND_0).hw
        h2 == MME1536_SetOperand_m(s, h1, s.R2, OPERAND_1).hw
        h3 == MME1536_SetOperand_m(s, h2, one, OPERAND_2).hw
        h4 == WaitUntilReady(
                  MME1536_StartSingle_m(s, h3, OPERAND_0, OPERAND_0, OPERAND_1),
                  waits[1])
        h5 == WaitUntilReady(
                  MME1536_StartSingle_m(s, h4, OPERAND_3, OPERAND_2, OPERAND_1),
                  waits[2])
        h6 == MME1536_SetExponent(h5, e, NULL, t)
        h7 == WaitUntilReady(MME1536_StartAuto_m(s, h6), waits[3])
        h8 == WaitUntilReady(
                  MME1536_StartSingle_m(s, h7, OPERAND_3, OPERAND_2, OPERAND_3),
                  waits[4])
        r == MME1536_GetOperand_m(s, h8, OPERAND_3)
    IN  IF waits[1] # "ready"
        THEN [after |-> <<h1, h2, h3, h4>>, hw |-> h4, result |-> << >>]
        ELSE IF waits[2] # "ready"
        THEN [after |-> <<h1, h2, h3, h4, h5>>, hw |-> h5, result |-> << >>]
        ELSE IF waits[3] # "ready"
        THEN [after |-> <<h1, h2, h3, h4, h5, h6, h7>>, hw |-> h7, result |-> << >>]
        ELSE [after |-> <<h1, h2, h3, h4, h5, h6, h7, h8>>,
              hw |-> r.hw, result |-> r.buffer]

\* MME1536_Exp_m(device_instance, result, g, e, t).
MME1536_Exp_m(s, h, g, e, t, waits) ==
    LET h1 == MME1536_SetOperand_m(s, h, g, OPERAND_0).hw
        h2 == MME1536_SetOperand_m(s, h1, s.R2, OPERAND_1).hw
        h3 == MME1536_SetOperand_m(s, h2, one, OPERAND_2).hw
        h4 == WaitUntilReady(
                  MME1536_StartSingle_m(s, h3, OPERAND_0, OPERAND_0, OPERAND_1),
                  waits[1])
        h5 == WaitUntilReady(
                  MME1536_StartSingle_m(s, h4, OPERAND_3, OPERAND_2, OPERAND_1),
                  waits[2])
        h6 == MME1536_SetExponent(h5, e, NULL, t)
        h7 == WaitUntilReady(MME1536_StartAuto_m(s, h6), waits[3])
        h8 == WaitUntilReady(
                  MME1536_StartSingle_m(s, h7, OPERAND_3, OPERAND_2, OPERAND_3),
                  waits[4])
        r == MME1536_GetOperand_m(s, h8, OPERAND_3)
    IN [after |-> <<h1, h2, h3, h4, h5, h6, h7, h8>>,
        hw |-> r.hw, result |-> r.buffer]

\* MME1536_MME_m(device_instance, result, g0, g1, e0, e1, t).
MME1536_MME_m(s, h, g0, g1, e0, e1, t, waits) ==
    LET h1 == MME1536_SetOperand_m(s, h, g0, OPERAND_0).hw
        h2 == MME1536_SetOperand_m(s, h1, g1, OPERAND_1).hw
        h3 == MME1536_SetOperand_m(s, h2, one, OPERAND_2).hw
        h4 == MME1536_SetOperand_m(s, h3, s.R2, OPERAND_3).hw
        h5 == WaitUntilReady(
                  MME1536_StartSingle_m(s, h4, OPERAND_0, OPERAND_0, OPERAND_3),
                  waits[1])
        h6 == WaitUntilReady(
                  MME1536_StartSingle_m(s, h5, OPERAND_1, OPERAND_1, OPERAND_3),
                  waits[2])
        h7 == WaitUntilReady(
                  MME1536_StartSingle_m(s, h6, OPERAND_3, OPERAND_2, OPERAND_3),
                  waits[3])
        h8 == WaitUntilReady(
                  MME1536_StartSingle_m(s, h7, OPERAND_2, OPERAND_0, OPERAND_1),
                  waits[4])
        h9 == MME1536_SetExponent(h8, e0, e1, t)
        h10 == WaitUntilReady(MME1536_StartAuto_m(s, h9), waits[5])
        h11 == MME1536_SetOperand_m(s, h10, one, OPERAND_2).hw
        h12 == WaitUntilReady(
                   MME1536_StartSingle_m(s, h11, OPERAND_3, OPERAND_2, OPERAND_3),
                   waits[6])
        g == MME1536_GetOperand_m(s, h12, OPERAND_3)
    IN [after |-> <<h1, h2, h3, h4, h5, h6, h7,
                    h8, h9, h10, h11, h12>>,
        hw |-> g.hw, result |-> g.buffer]

\* MME computing R2 in the structure's buffer and noting n there.
MME_CachingR2(s, h, g0, g1, m, e0, e1, n, t, malloced, waits) ==
    LET part == PartOf(n, 0)
        R2 == MME1536_ComputeR2(ZeroBuffer(WORDS_TOT), m, n)
        h0 == MME1536_SetOperand(h, m, MODULUS, n).hw
        h1 == MME1536_SetOperand(h0, g0, OPERAND_0, n).hw
        h2 == MME1536_SetOperand(h1, g1, OPERAND_1, n).hw
        h3 == MME1536_SetOperand(h2, one, OPERAND_2, n).hw
        h4 == MME1536_SetOperand(h3, R2, OPERAND_3, n).hw
        h5 == WaitUntilReady(
                  MME1536_StartSingle(h4, part, OPERAND_0, OPERAND_0, OPERAND_3),
                  waits[1])
        h6 == WaitUntilReady(
                  MME1536_StartSingle(h5, part, OPERAND_1, OPERAND_1, OPERAND_3),
                  waits[2])
        h7 == WaitUntilReady(
                  MME1536_StartSingle(h6, part, OPERAND_3, OPERAND_2, OPERAND_3),
                  waits[3])
        h8 == WaitUntilReady(
                  MME1536_StartSingle(h7, part, OPERAND_2, OPERAND_0, OPERAND_1),
                  waits[4])
        h9 == MME1536_SetExponent(h8, e0, e1, t)
        h10 == WaitUntilReady(MME1536_StartAuto(h9, part), waits[5])
        h11 == MME1536_SetOperand(h10, one, OPERAND_2, n).hw
        h12 == WaitUntilReady(
                   MME1536_StartSingle(h11, part, OPERAND_3, OPERAND_2, OPERAND_3),
                   waits[6])
        g == MME1536_GetOperand(h12, OPERAND_3, n)
    IN [after |-> <<h0, h1, h2, h3, h4, h5, h6,
                    h7, h8, h9, h10, h11, h12>>,
        s |-> [s EXCEPT !.n = n, !.R2 = R2], hw |-> g.hw, result |-> g.buffer]

\* MME going from the post-correction start straight to the read-back.
MME_NoLastWait(s, h, g0, g1, m, e0, e1, n, t, malloced, waits) ==
    LET part == PartOf(n, 0)
        R2 == MME1536_ComputeR2(malloced, m, n)
        h0 == MME1536_SetOperand(h, m, MODULUS, n).hw
        h1 == MME1536_SetOperand(h0, g0, OPERAND_0, n).hw
        h2 == MME1536_SetOperand(h1, g1, OPERAND_1, n).hw
        h3 == MME1536_SetOperand(h2, one, OPERAND_2, n).hw
        h4 == MME1536_SetOperand(h3, R2, OPERAND_3, n).hw
        h5 == WaitUntilReady(
                  MME1536_StartSingle(h4, part, OPERAND_0, OPERAND_0, OPERAND_3),
                  waits[1])
        h6 == WaitUntilReady(
                  MME1536_StartSingle(h5, part, OPERAND_1, OPERAND_1, OPERAND_3),
                  waits[2])
        h7 == WaitUntilReady(
                  MME1536_StartSingle(h6, part, OPERAND_3, OPERAND_2, OPERAND_3),
                  waits[3])
        h8 == WaitUntilReady(
                  MME1536_StartSingle(h7, part, OPERAND_2, OPERAND_0, OPERAND_1),
                  waits[4])
        h9 == MME1536_SetExponent(h8, e0, e1, t)
        h10 == WaitUntilReady(MME1536_StartAuto(h9, part), waits[5])
        h11 == MME1536_SetOperand(h10, one, OPERAND_2, n).hw
        h12 == MME1536_StartSingle(h11, part, OPERAND_3, OPERAND_2, OPERAND_3)
        g == MME1536_GetOperand(h12, OPERAND_3, n)
    IN [after |-> <<h0, h1, h2, h3, h4, h5, h6,
                    h7, h8, h9, h10, h11, h12>>,
        s |-> s, hw |-> g.hw, result |-> g.buffer]

\* MME1536_MME(device_instance, result, g0, g1, m, e0, e1, n, t); malloced is
\* what malloc(n/8) handed out, s the structure, which the call leaves as it
\* is: R2 is its own block.
MME1536_MME(s, h, g0, g1, m, e0, e1, n, t, malloced, waits) ==
    LET part == PartOf(n, 0)
        R2 == MME1536_ComputeR2(malloced, m, n)
        h0 == MME1536_SetOperand(h, m, MODULUS, n).hw
        h1 == MME1536_SetOperand(h0, g0, OPERAND_0, n).hw
        h2 == MME1536_SetOperand(h1, g1, OPERAND_1, n).hw
        h3 == MME1536_SetOperand(h2, one, OPERAND_2, n).hw
        h4 == MME1536_SetOperand(h3, R2, OPERAND_3, n).hw
        h5 == WaitUntilReady(
                  MME1536_StartSingle(h4, part, OPERAND_0, OPERAND_0, OPERAND_3),
                  waits[1])
        h6 == WaitUntilReady(
                  MME1536_StartSingle(h5, part, OPERAND_1, OPERAND_1, OPERAND_3),
                  waits[2])
        h7 == WaitUntilReady(
                  MME1536_StartSingle(h6, part, OPERAND_3, OPERAND_2, OPERAND_3),
                  waits[3])
        h8 == WaitUntilReady(
                  MME1536_StartSingle(h7, part, OPERAND_2, OPERAND_0, OPERAND_1),
                  waits[4])
        h9 == MME1536_SetExponent(h8, e0, e1, t)
        h10 == WaitUntilReady(MME1536_StartAuto(h9, part), waits[5])
        h11 == MME1536_SetOperand(h10, one, OPERAND_2, n).hw
        h12 == WaitUntilReady(
                   MME1536_StartSingle(h11, part, OPERAND_3, OPERAND_2, OPERAND_3),
                   waits[6])
        g == MME1536_GetOperand(h12, OPERAND_3, n)
    IN [after |-> <<h0, h1, h2, h3, h4, h5, h6,
                    h7, h8, h9, h10, h11, h12>>,
        s |-> s, hw |-> g.hw, result |-> g.buffer]

(***************************************************************************)
(* MME1536_Initialize and MME1536_Clean against the operating system.      *)
(* d is the MME1536 structure, o the process's descriptors, mappings and   *)
(* heap blocks, e the outcome of each system call of one Initialize.       *)
(***************************************************************************)
MAP_FAILED == -1
ENOSYS == 38

\* The lowest descriptor not in use: what open() returns when it succeeds.
LowestFree(fds) == CHOOSE fd \in 0 .. Cardinality(fds) : fd \notin fds

\* Where the kernel places a new mapping or malloc a new block.
FreshAddress(used) == CHOOSE a \in 4096 .. (4096 + Cardinality(used)) : a \notin used

Acquire(callname, h) == [call |-> callname, h |-> h]

\* The call that gives back what callname acquired.
ReleaseOf(callname) ==
    CASE callname = "open" -> "close"
      [] callname = "mmap" -> "munmap"
      [] callname = "malloc" -> "free"

\* o after close(fd), munmap(ptr), free(ptr): a handle the process does not
\* hold makes the call fail and changes nothing.
OsRelease(o, r) ==
    CASE r.call = "close" -> [o EXCEPT !.fds = @ \ {r.h}]
      [] r.call = "munmap" -> [o EXCEPT !.maps = @ \ {r.h}]
      [] r.call = "free" -> [o EXCEPT !.heap = @ \ {r.h}]

RECURSIVE OsReleaseAll(_, _)
OsReleaseAll(o, rs) ==
    IF rs = << >> THEN o ELSE OsReleaseAll(OsRelease(o, Head(rs)), Tail(rs))

\* The exit of MME1536_Initialize through failed2 or failed1.
InitializeFailed2(d) == <<Acquire("munmap", d.ctrl_ptr), Acquire("close", d.ctrl_fd)>>
InitializeFailed1(d) == <<Acquire("close", d.ctrl_fd)>>

\* MME1536_Initialize(device_instance, uio_dev): the structure, the process
\* and the return value it leaves; returned is FALSE when the process died in
\* the call.
MME1536_Initialize(d, o, e) ==
    LET data_fd == IF e.open_mem = "ok" THEN LowestFree(o.fds) ELSE -1
        o1 == IF e.open_mem = "ok" THEN [o EXCEPT !.fds = @ \cup {data_fd}] ELSE o
        d1 == [d EXCEPT !.data_fd = data_fd]
        data_ptr == IF e.mmap_data = "ok" THEN FreshAddress(o1.maps) ELSE MAP_FAILED
        o2 == IF e.mmap_data = "ok" THEN [o1 EXCEPT !.maps = @ \cup {data_ptr}] ELSE o1
        d2 == [d1 EXCEPT !.data_ptr = data_ptr]
        ctrl_fd == IF e.open_uio = "ok" THEN LowestFree(o2.fds) ELSE -1
        o3 == IF e.open_uio = "ok" THEN [o2 EXCEPT !.fds = @ \cup {ctrl_fd}] ELSE o2
        d3 == [d2 EXCEPT !.ctrl_fd = ctrl_fd]
        ctrl_ptr == IF e.mmap_ctrl = "ok" THEN FreshAddress(o3.maps) ELSE MAP_FAILED
        o4 == IF e.mmap_ctrl = "ok" THEN [o3 EXCEPT !.maps = @ \cup {ctrl_ptr}] ELSE o3
        d4 == [d3 EXCEPT !.ctrl_ptr = ctrl_ptr]
        \* int ints = 0; read(ctrl_fd, &ints, sizeof(int)) leaves 0 when it fails
        ints == e.read
        d5 == [d4 EXCEPT !.prev_tot_ints = ints]
        R2 == IF e.malloc = "ok" THEN FreshAddress(o4.maps \cup o4.heap) ELSE 0
        o5 == IF e.malloc = "ok" THEN [o4 EXCEPT !.heap = @ \cup {R2}] ELSE o4
        d6 == [d5 EXCEPT !.R2 = R2]
        Out(ret, dd, oo, acq, failed) ==
            [returned |-> TRUE, ret |-> ret, dev |-> dd, os |-> oo, acq |-> acq,
             failed |-> failed]
        a1 == <<Acquire("open", data_fd)>>
        a2 == Append(a1, Acquire("mmap", data_ptr))
        a3 == Append(a2, Acquire("open", ctrl_fd))
        a4 == IF e.mmap_ctrl = "ok" THEN Append(a3, Acquire("mmap", ctrl_ptr)) ELSE a3
        step4 == IF e.mmap_ctrl = "ok" THEN "none" ELSE "mmap_ctrl"
    IN  IF data_fd < 1
        THEN Out(-1, d1, o1, IF e.open_mem = "ok" THEN a1 ELSE << >>,
                 IF e.open_mem = "ok" THEN "none" ELSE "open_mem")
        ELSE IF data_ptr = -1 THEN Out(-1, d2, o2, a1, "mmap_data")
        ELSE IF ctrl_fd < 1
        THEN Out(-1, d3, o3, IF e.open_uio = "ok" THEN a3 ELSE a2,
                 IF e.open_uio = "ok" THEN "none" ELSE "open_uio")
        ELSE IF ctrl_ptr = 0 THEN Out(-1, d4, OsReleaseAll(o4, InitializeFailed1(d4)),
                                      a4, step4)
        \* MME1536_EnableInterrupt stores through ctrl_ptr: with no mapping
        \* behind it the store kills the process or lands somewhere.
        ELSE IF ctrl_ptr = MAP_FAILED /\ e.segv
        THEN [returned |-> FALSE, ret |-> 0, dev |-> d4, os |-> o4, acq |-> a4,
              failed |-> step4]
        ELSE IF e.write = ENOSYS
        THEN Out(-1, d4, OsReleaseAll(o4, InitializeFailed2(d4)), a4, step4)
        ELSE IF R2 = 0
        THEN Out(-1, d6, OsReleaseAll(o5, InitializeFailed2(d6)), a4,
                 IF step4 = "none" THEN "malloc" ELSE step4)
        ELSE Out(0, d6, o5, Append(a4, Acquire("malloc", R2)), step4)

\* Clean giving back the data region before the control region.
Clean_DataFirst(d) ==
    <<Acquire("free", d.R2),
      Acquire("munmap", d.data_ptr),
      Acquire("close", d.data_fd),
      Acquire("munmap", d.ctrl_ptr),
      Acquire("close", d.ctrl_fd)>>

\* MME1536_Clean(device_instance): the release calls it makes, in order.
MME1536_Clean(d) ==
    <<Acquire("free", d.R2),
      Acquire("munmap", d.ctrl_ptr),
      Acquire("close", d.ctrl_fd),
      Acquire("munmap", d.data_ptr),
      Acquire("close", d.data_fd)>>

(***************************************************************************)
(* MME1536_WaitUntilReady against the clock and the UIO descriptor.        *)
(***************************************************************************)
TIMEOUT_US == 140000
TicksPerSecond == 20
MaxInts == 2
MaxAttempts == 2

\* One tick of the wall clock in microseconds; tv_usec runs through
\* TicksPerSecond ticks and starts again at 0.
TickUs == (10 ^ 6) \div TicksPerSecond

\* while(ints_passed <= device_instance->prev_tot_ints)
LoopCondition(ints_passed, prev_tot_ints) == ints_passed <= prev_tot_ints

\* if(current_time >= timeout)
TimedOut(current_time, timeout) == current_time >= timeout

\* The deadline without the timeout interval.
Deadline_NoInterval(tv_usec) == tv_usec

\* timeout = (int)time.tv_usec + TIMEOUT_US
Deadline(tv_usec) == tv_usec + TIMEOUT_US

(***************************************************************************)
(* The state.                                                              *)
(*                                                                         *)
(* sess  the structure's n, words, part and R2 buffer                      *)
(* hw    the core                                                          *)
(* inst  the arguments of the last UpdateModulus, NoModulus before it      *)
(* call  the last arithmetic call, what it returned, and for UpdateModulus  *)
(*       the R2 buffer it found                                            *)
(* tv    the operands a program computes with throughout, where it does    *)
(* nops  the number of arithmetic calls made                               *)
(* dev   the structure's descriptors, pointers and prev_tot_ints           *)
(* os    the descriptors, mappings and heap blocks the process holds       *)
(* life  where the process is with Initialize and Clean                    *)
(* w     the locals of WaitUntilReady and where it is                      *)
(* clk   the wall clock's tv_usec, in ticks                                *)
(* irq   the interrupts the kernel counted and the count last read         *)
(***************************************************************************)
VARIABLES sess, hw, inst, call, tv, nops, dev, os, life, w, clk, irq

arithVars == <<sess, hw, inst, call, tv, nops>>
lifeVars == <<os, life>>
waitVars == <<w, clk, irq>>
vars == <<sess, hw, inst, call, tv, nops, dev, os, life, w, clk, irq>>

NoModulus == [n |-> 0, m |-> 0]

\* The odd moduli of n bits within ModGap of either end of the range.
Moduli(n) == {m \in 1 .. (2 ^ n - 1) :
                 m % 2 = 1 /\ (m <= ModGap \/ m >= 2 ^ n - ModGap)}

\* An operand is named by its distance from 0 (sel >= 0) or from m (sel < 0).
OperandSel == (-1) .. OperandGap
OperandValue(sel, m) == IF sel >= 0 THEN sel ELSE m + sel
OperandFits(sel, m) == OperandValue(sel, m) >= 0 /\ OperandValue(sel, m) < m

ExpLengths == {WordBits * k : k \in 0 .. MaxExpWords}

\* The exponents of t bits within ExpGap of either end of the range.
Exponents(t) == {e \in 0 .. (2 ^ t - 1) : e <= ExpGap \/ e >= 2 ^ t - 1 - ExpGap}

\* What a program of MME calls computes with.
TestVectors ==
    {v \in [g0 : {-1, OperandGap}, g1 : {-1, OperandGap},
            t : {WordBits * MaxExpWords},
            e0 : Exponents(WordBits * MaxExpWords),
            e1 : Exponents(WordBits * MaxExpWords)] : v.g0 # v.g1 /\ v.e0 >= v.e1}

NoVector == [g0 |-> 0, g1 |-> 0, t |-> 0, e0 |-> 0, e1 |-> 0]

\* Values an int that was never assigned may hold.
JunkInt == {-1, 0}

NoCall == [op |-> "none", n |-> 0, m |-> 0, x |-> 0, y |-> 0, e0 |-> 0, e1 |-> 0,
           t |-> 0, old |-> << >>, result |-> << >>]

ArithInit ==
    /\ \E j \in JunkInt, r \in Junk(WORDS_TOT) :
           sess = [n |-> j, words |-> j, part |-> j, R2 |-> r]
    /\ hw = HwReset
    /\ inst = NoModulus
    /\ call = NoCall
    /\ nops = 0

ArithIdle ==
    /\ sess = [n |-> 0, words |-> 0, part |-> 0, R2 |-> ZeroBuffer(WORDS_TOT)]
    /\ hw = HwReset
    /\ inst = NoModulus
    /\ call = NoCall
    /\ tv = NoVector
    /\ nops = 0

\* The structure before Initialize, and the process with its three standard
\* streams open.
DevFresh ==
    [data_fd |-> 0, data_ptr |-> 0, ctrl_fd |-> 0, ctrl_ptr |-> 0, R2 |-> 0,
     prev_tot_ints |-> 0]

LifeFresh ==
    [pc |-> "fresh", ret |-> 0, acq |-> << >>, rel |-> << >>, failed |-> "none",
     before |-> [fds |-> {}, maps |-> {}, heap |-> {}], attempts |-> 0]

LifeIdle ==
    /\ os = [fds |-> {0, 1, 2}, maps |-> {}, heap |-> {}]
    /\ life = LifeFresh

WaitFresh ==
    [pc |-> "idle", ints_passed |-> -1, timeout |-> 0, current_time |-> 0,
     entry_prev |-> 0, entry_count |-> 0, elapsed |-> 0, checked |-> 0,
     timed_out |-> FALSE, armed |-> 0, obtained |-> << >>]

WaitIdle ==
    /\ w = WaitFresh
    /\ clk = 0
    /\ irq = [count |-> 0, delivered |-> 0]

(***************************************************************************)
(* The arithmetic calls.                                                   *)
(***************************************************************************)
\* The core at the entry of a call: log lists the accesses of one call.
Entered(h) == [h EXCEPT !.log = << >>]

\* The modulus slot holds the modulus UpdateModulus installed last.
ModulusInstalled ==
    /\ inst # NoModulus
    /\ \A word \in 0 .. (WORDS_TOT - 1) :
           hw.mem[M_OFFSET + ADDR_STEP * word]
               = PaddedOperand(ToWords(inst.m, inst.n \div WordBits), inst.n)[word]

CallUpdateModulus ==
    /\ nops < MaxOps
    /\ \E n \in Widths : \E m \in Moduli(n) :
          LET r == MME1536_UpdateModulus(sess, Entered(hw), ToWords(m, n \div WordBits), n)
          IN /\ sess' = r.s
             /\ hw' = r.hw
             /\ inst' = [n |-> n, m |-> m]
             /\ call' = [NoCall EXCEPT !.op = "UpdateModulus", !.n = n, !.m = m,
                                       !.old = sess.R2]
    /\ nops' = nops + 1
    /\ UNCHANGED <<tv, dev, lifeVars, waitVars>>

\* Lengths UpdateModulus can be handed that no pipeline part has.
UnsupportedWidths == {BITS_LOW + 1, BITS_HIGH + 1}

\* UpdateModulus with any n; m has the n / 32 words the call reads.
CallUpdateModulusAny ==
    /\ nops < MaxOps
    /\ \E n \in Widths \cup UnsupportedWidths :
       \E m \in Moduli(WordBits * (n \div WordBits)) :
       \E r \in {MME1536_UpdateModulus(sess, Entered(hw),
                                       ToWords(m, n \div WordBits), n)} :
          /\ sess' = r.s
          /\ hw' = r.hw
          /\ inst' = IF n \in Widths THEN [n |-> n, m |-> m] ELSE inst
          /\ call' = [NoCall EXCEPT !.op = "UpdateModulus", !.n = n, !.m = m,
                                    !.old = sess.R2]
    /\ nops' = nops + 1
    /\ UNCHANGED <<tv, dev, lifeVars, waitVars>>

CallMultiply_m ==
    /\ nops < MaxOps
    /\ ModulusInstalled
    /\ \E xs \in OperandSel, ys \in OperandSel :
          /\ OperandFits(xs, inst.m) /\ OperandFits(ys, inst.m)
          /\ LET x == OperandValue(xs, inst.m)
                 y == OperandValue(ys, inst.m)
                 r == MME1536_Multiply_m(sess, Entered(hw), ToWords(x, sess.words),
                                         ToWords(y, sess.words), AllReady)
             IN /\ hw' = r.hw
                /\ call' = [NoCall EXCEPT !.op = "Multiply_m", !.n = inst.n,
                                          !.m = inst.m, !.x = x, !.y = y,
                                          !.result = r.result]
    /\ nops' = nops + 1
    /\ UNCHANGED <<sess, inst, tv, dev, lifeVars, waitVars>>

CallMME_m ==
    /\ nops < MaxOps
    /\ ModulusInstalled
    /\ \E xs \in OperandSel, ys \in OperandSel, t \in ExpLengths :
       \E e0 \in Exponents(t), e1 \in Exponents(t) :
          /\ OperandFits(xs, inst.m) /\ OperandFits(ys, inst.m)
          /\ LET g0 == OperandValue(xs, inst.m)
                 g1 == OperandValue(ys, inst.m)
                 r == MME1536_MME_m(sess, Entered(hw), ToWords(g0, sess.words),
                                    ToWords(g1, sess.words),
                                    ToWords(e0, t \div WordBits),
                                    ToWords(e1, t \div WordBits), t, AllReady)
             IN /\ hw' = r.hw
                /\ call' = [NoCall EXCEPT !.op = "MME_m", !.n = inst.n, !.m = inst.m,
                                          !.x = g0, !.y = g1, !.e0 = e0, !.e1 = e1,
                                          !.t = t, !.result = r.result]
    /\ nops' = nops + 1
    /\ UNCHANGED <<sess, inst, tv, dev, lifeVars, waitVars>>

CallMME ==
    /\ nops < MaxOps
    /\ \E n \in Widths : \E m \in Moduli(n) : \E malloced \in Junk(n \div WordBits) :
          /\ OperandFits(tv.g0, m) /\ OperandFits(tv.g1, m)
          /\ \E g0 \in {OperandValue(tv.g0, m)}, g1 \in {OperandValue(tv.g1, m)} :
             \E r \in {MME1536_MME(sess, Entered(hw), ToWords(g0, n \div WordBits),
                                   ToWords(g1, n \div WordBits),
                                   ToWords(m, n \div WordBits),
                                   ToWords(tv.e0, tv.t \div WordBits),
                                   ToWords(tv.e1, tv.t \div WordBits), n, tv.t,
                                   malloced, AllReady)} :
                /\ sess' = r.s
                /\ hw' = r.hw
                /\ call' = [NoCall EXCEPT !.op = "MME", !.n = n, !.m = m,
                                          !.x = g0, !.y = g1, !.e0 = tv.e0,
                                          !.e1 = tv.e1, !.t = tv.t,
                                          !.result = r.result]
    /\ nops' = nops + 1
    /\ UNCHANGED <<inst, tv, dev, lifeVars, waitVars>>

(***************************************************************************)
(* The arithmetic calls with waits that time out and with arguments that   *)
(* are not valid.                                                          *)
(***************************************************************************)
\* How the waits of one call end: all in the same way, or one of them by
\* timeout with the step never done.
WaitPatterns ==
    {[k \in 1 .. 6 |-> o] : o \in WaitOutcomes}
        \cup {[k \in 1 .. 6 |-> IF k = j THEN "never" ELSE "ready"] : j \in 1 .. 6}

\* The vectors a program of calls with timeouts computes with.
ProtoVectors ==
    {v \in TestVectors : v.g0 = -1 /\ v.e0 = 2 ^ v.t - 1 /\ v.e1 <= ExpGap}

\* The accesses a call made to the core, without the values its reads found
\* and without its waits.
Issued(log) ==
    LET kept == SelectSeq(log, LAMBDA a : a.op # "wait")
    IN [i \in 1 .. Len(kept) |->
           IF kept[i].op = "read" THEN [op |-> "read", addr |-> kept[i].addr]
           ELSE kept[i]]

\* r is what the call left, reference what it leaves when no wait times out.
ProtoCall(op, n, t, waits, r, reference) ==
    [op |-> op, n |-> n, t |-> t, waits |-> waits, result |-> r.result,
     reference |-> Issued(reference.hw.log)]

RunMultiply_m ==
    /\ nops < MaxRuns
    /\ ModulusInstalled
    /\ OperandFits(tv.g0, inst.m) /\ OperandFits(tv.g1, inst.m)
    /\ \E waits \in WaitPatterns :
       \E x \in {ToWords(OperandValue(tv.g0, inst.m), sess.words)},
          y \in {ToWords(OperandValue(tv.g1, inst.m), sess.words)} :
       \E r \in {MME1536_Multiply_m(sess, Entered(hw), x, y, waits)},
          reference \in {MME1536_Multiply_m(sess, Entered(hw), x, y, AllReady)} :
          /\ hw' = r.hw
          /\ call' = ProtoCall("Multiply_m", sess.n, 0, waits, r, reference)
    /\ nops' = nops + 1
    /\ UNCHANGED <<sess, inst, tv, dev, lifeVars, waitVars>>

RunExp_m ==
    /\ nops < MaxRuns
    /\ ModulusInstalled
    /\ OperandFits(tv.g0, inst.m)
    /\ \E waits \in WaitPatterns, t \in {tv.t, tv.t - 1} :
       \E g \in {ToWords(OperandValue(tv.g0, inst.m), sess.words)},
          e \in {ToWords(tv.e0, MaxExpWords)} :
       \E r \in {MME1536_Exp_m(sess, Entered(hw), g, e, t, waits)},
          reference \in {MME1536_Exp_m(sess, Entered(hw), g, e, t, AllReady)} :
          /\ hw' = r.hw
          /\ call' = ProtoCall("Exp_m", sess.n, t, waits, r, reference)
    /\ nops' = nops + 1
    /\ UNCHANGED <<sess, inst, tv, dev, lifeVars, waitVars>>

RunMME_m ==
    /\ nops < MaxRuns
    /\ ModulusInstalled
    /\ OperandFits(tv.g0, inst.m) /\ OperandFits(tv.g1, inst.m)
    /\ \E waits \in WaitPatterns, t \in {tv.t, tv.t - 1} :
       \E g0 \in {ToWords(OperandValue(tv.g0, inst.m), sess.words)},
          g1 \in {ToWords(OperandValue(tv.g1, inst.m), sess.words)},
          e0 \in {ToWords(tv.e0, MaxExpWords)},
          e1 \in {ToWords(tv.e1, MaxExpWords)} :
       \E r \in {MME1536_MME_m(sess, Entered(hw), g0, g1, e0, e1, t, waits)},
          reference \in {MME1536_MME_m(sess, Entered(hw), g0, g1, e0, e1, t,
                                       AllReady)} :
          /\ hw' = r.hw
          /\ call' = ProtoCall("MME_m", sess.n, t, waits, r, reference)
    /\ nops' = nops + 1
    /\ UNCHANGED <<sess, inst, tv, dev, lifeVars, waitVars>>

\* MME with the largest modulus of n bits; an n that is no width comes with
\* buffers of n / 32 words.
RunMME ==
    /\ nops < MaxRuns
    /\ \E n \in Widths \cup {BITS_LOW + 1} : \E malloced \in Junk(n \div WordBits) :
       \E waits \in WaitPatterns, t \in {tv.t, tv.t - 1}, words \in {n \div WordBits} :
       \E m \in {ToWords(WordBase ^ words - 1, words)},
          g0 \in {ToWords(OperandValue(tv.g0, WordBase ^ words - 1), words)},
          g1 \in {ToWords(OperandValue(tv.g1, WordBase ^ words - 1), words)},
          e0 \in {ToWords(tv.e0, MaxExpWords)},
          e1 \in {ToWords(tv.e1, MaxExpWords)} :
       \E r \in {MME1536_MME(sess, Entered(hw), g0, g1, m, e0, e1, n, t, malloced, waits)},
          reference \in {MME1536_MME(sess, Entered(hw), g0, g1, m, e0, e1, n, t, malloced,
                                     AllReady)} :
          /\ sess' = r.s
          /\ hw' = r.hw
          /\ call' = ProtoCall("MME", n, t, waits, r, reference)
    /\ nops' = nops + 1
    /\ UNCHANGED <<inst, tv, dev, lifeVars, waitVars>>

(***************************************************************************)
(* The operand codec called on its own.                                    *)
(***************************************************************************)
\* Lengths no pipeline part has.
BadWidths == {0, BITS_LOW + 1}

\* Operand identifiers: the five slots and two numbers that name none.
OperandIds == (-1) .. (MODULUS + 1)

\* Caller buffers of len words: consecutive words from k on.
Patterns(len) ==
    {[i \in 0 .. (len - 1) |-> (i + k) % WordBase] : k \in 1 .. NumPatterns}

\* The buffer a caller passes for an operand of length bits.
OperandBuffers(length) ==
    IF length \in Widths THEN Patterns(length \div WordBits) ELSE Patterns(WORDS_TOT)

\* The structure after UpdateModulus with a supported n, before any
\* UpdateModulus, and after UpdateModulus with an unsupported n.
CodecSessions ==
    {[n |-> n, words |-> n \div WordBits, part |-> PartOf(n, 0),
      R2 |-> ZeroBuffer(WORDS_TOT)] : n \in Widths \cup BadWidths}

\* The core with every bit of its memory and of its register set.
HwFilled ==
    [HwReset EXCEPT !.mem = [a \in Addr |-> WordBase - 1], !.ctrl = Bits(-1)]

\* What a codec call keeps of the call before it.
LastCall(c) ==
    IF c.op = "none"
    THEN [op |-> "none", operand |-> 0, length |-> 0, data |-> << >>, ret |-> 0]
    ELSE [op |-> c.op, operand |-> c.operand, length |-> c.length,
          data |-> c.data, ret |-> c.ret]

CodecCall(op, operand, length, data, ret, buffer) ==
    [op |-> op, operand |-> operand, length |-> length, data |-> data,
     ret |-> ret, buffer |-> buffer, prev |-> LastCall(call)]

CallSetOperand ==
    /\ nops < MaxCodecOps
    /\ \E operand \in OperandIds, length \in Widths \cup BadWidths :
       \E data \in OperandBuffers(length) :
          LET r == MME1536_SetOperand(Entered(hw), data, operand, length)
          IN /\ hw' = r.hw
             /\ call' = CodecCall("SetOperand", operand, length, data, r.ret, << >>)
    /\ nops' = nops + 1
    /\ UNCHANGED <<sess, inst, tv, dev, lifeVars, waitVars>>

CallSetOperand_m ==
    /\ nops < MaxCodecOps
    /\ \E operand \in OperandIds : \E data \in OperandBuffers(sess.n) :
          LET r == MME1536_SetOperand_m(sess, Entered(hw), data, operand)
          IN /\ hw' = r.hw
             /\ call' = CodecCall("SetOperand_m", operand, sess.n, data, r.ret, << >>)
    /\ nops' = nops + 1
    /\ UNCHANGED <<sess, inst, tv, dev, lifeVars, waitVars>>

CallGetOperand ==
    /\ nops < MaxCodecOps
    /\ \E operand \in OperandIds, length \in Widths \cup BadWidths :
          LET r == MME1536_GetOperand(Entered(hw), operand, length)
          IN /\ hw' = r.hw
             /\ call' = CodecCall("GetOperand", operand, length, << >>, r.ret, r.buffer)
    /\ nops' = nops + 1
    /\ UNCHANGED <<sess, inst, tv, dev, lifeVars, waitVars>>

CallGetOperand_m ==
    /\ nops < MaxCodecOps
    /\ \E operand \in OperandIds :
          LET r == MME1536_GetOperand_m(sess, Entered(hw), operand)
          IN /\ hw' = r.hw
             /\ call' = CodecCall("GetOperand_m", operand, sess.n, << >>, r.ret, r.buffer)
    /\ nops' = nops + 1
    /\ UNCHANGED <<sess, inst, tv, dev, lifeVars, waitVars>>

(***************************************************************************)
(* The start calls and the exponent feed called on their own.              *)
(***************************************************************************)
\* The values of a two-bit selector.
Selectors == 0 .. 3

\* Bit lengths of an exponent of at most MaxExpWords words, multiples of the
\* word size and others.
ExpBitLengths == 0 .. (MaxExpWords * WordBits)

IssueCall(op, p_sel, destination, x_op, y_op, e0, e1, t) ==
    [op |-> op, p_sel |-> p_sel, destination |-> destination, x_op |-> x_op,
     y_op |-> y_op, e0 |-> e0, e1 |-> e1, t |-> t, before |-> hw.ctrl]

CallStartSingle ==
    /\ nops < MaxIssues
    /\ \E p_sel \in Selectors, destination \in Selectors, x_op \in Selectors,
          y_op \in Selectors :
          /\ hw' = MME1536_StartSingle(Entered(hw), p_sel, destination, x_op, y_op)
          /\ call' = IssueCall("StartSingle", p_sel, destination, x_op, y_op,
                               << >>, << >>, 0)
    /\ nops' = nops + 1
    /\ UNCHANGED <<sess, inst, tv, dev, lifeVars, waitVars>>

CallStartSingle_m ==
    /\ nops < MaxIssues
    /\ \E destination \in Selectors, x_op \in Selectors, y_op \in Selectors :
          /\ hw' = MME1536_StartSingle_m(sess, Entered(hw), destination, x_op, y_op)
          /\ call' = IssueCall("StartSingle_m", sess.part, destination, x_op, y_op,
                               << >>, << >>, 0)
    /\ nops' = nops + 1
    /\ UNCHANGED <<sess, inst, tv, dev, lifeVars, waitVars>>

CallStartAuto ==
    /\ nops < MaxIssues
    /\ \E p_sel \in Selectors :
          /\ hw' = MME1536_StartAuto(Entered(hw), p_sel)
          /\ call' = IssueCall("StartAuto", p_sel, 0, 0, 0, << >>, << >>, 0)
    /\ nops' = nops + 1
    /\ UNCHANGED <<sess, inst, tv, dev, lifeVars, waitVars>>

CallStartAuto_m ==
    /\ nops < MaxIssues
    /\ hw' = MME1536_StartAuto_m(sess, Entered(hw))
    /\ call' = IssueCall("StartAuto_m", sess.part, 0, 0, 0, << >>, << >>, 0)
    /\ nops' = nops + 1
    /\ UNCHANGED <<sess, inst, tv, dev, lifeVars, waitVars>>

CallSetExponent ==
    /\ nops < MaxIssues
    /\ \E e0 \in Patterns(MaxExpWords), e1 \in Patterns(MaxExpWords) \cup {NULL},
          t \in ExpBitLengths :
          /\ hw' = MME1536_SetExponent(Entered(hw), e0, e1, t)
          /\ call' = IssueCall("SetExponent", 0, 0, 0, 0, e0, e1, t)
    /\ nops' = nops + 1
    /\ UNCHANGED <<sess, inst, tv, dev, lifeVars, waitVars>>

(***************************************************************************)
(* Initialize and Clean.                                                   *)
(***************************************************************************)
SyscallOutcomes ==
    [open_mem : {"ok", "fail"}, mmap_data : {"ok", "fail"},
     open_uio : {"ok", "fail"}, mmap_ctrl : {"ok", "fail"},
     write : {-1, 4}, read : 0 .. MaxInts,
     malloc : {"ok", "fail"}, segv : BOOLEAN]

CallInitialize ==
    /\ life.pc \in {"fresh", "failed", "cleaned"}
    /\ life.attempts < MaxAttempts
    /\ \E e \in SyscallOutcomes :
          LET r == MME1536_Initialize(dev, os, e)
          IN /\ dev' = r.dev
             /\ os' = r.os
             /\ life' = [pc |-> IF ~r.returned THEN "crashed"
                                ELSE IF r.ret = 0 THEN "initialized" ELSE "failed",
                         ret |-> r.ret, acq |-> r.acq, rel |-> << >>,
                         failed |-> r.failed, before |-> os,
                         attempts |-> life.attempts + 1]
    /\ UNCHANGED <<arithVars, waitVars>>

CallClean ==
    /\ life.pc = "initialized"
    /\ os' = OsReleaseAll(os, MME1536_Clean(dev))
    /\ life' = [life EXCEPT !.pc = "cleaned", !.rel = MME1536_Clean(dev)]
    /\ UNCHANGED <<dev, arithVars, waitVars>>

(***************************************************************************)
(* WaitUntilReady, one step per system call, with the clock and the core   *)
(* running beside it.                                                      *)
(***************************************************************************)
tv_usec == clk * TickUs

\* Entry: ints_passed = -1, the deadline from gettimeofday, and the first
\* test of the loop condition.
WaitEnter ==
    /\ w.pc = "idle"
    /\ w' = [w EXCEPT !.ints_passed = -1,
                      !.timeout = Deadline(tv_usec),
                      !.current_time = tv_usec,
                      !.entry_prev = dev.prev_tot_ints,
                      !.entry_count = irq.count,
                      !.elapsed = 0, !.checked = 0, !.timed_out = FALSE,
                      !.armed = 0, !.obtained = << >>,
                      !.pc = IF LoopCondition(-1, dev.prev_tot_ints)
                             THEN "read" ELSE "exit"]
    /\ UNCHANGED <<dev, clk, irq, arithVars, lifeVars>>

\* read(ctrl_fd, &ints_passed, sizeof(int)) on the non-blocking descriptor:
\* the count, when the kernel counted an interrupt since the last read, and
\* nothing otherwise.
WaitRead ==
    /\ w.pc = "read"
    /\ IF irq.count # irq.delivered
       THEN /\ w' = [w EXCEPT !.ints_passed = irq.count, !.pc = "clock",
                                !.obtained = Append(@, irq.count)]
            /\ irq' = [irq EXCEPT !.delivered = irq.count]
       ELSE /\ w' = [w EXCEPT !.pc = "clock"]
            /\ irq' = irq
    /\ UNCHANGED <<dev, clk, arithVars, lifeVars>>

\* gettimeofday, the timeout test, and the loop condition again.
WaitClock ==
    /\ w.pc = "clock"
    /\ w' = [w EXCEPT !.current_time = tv_usec,
                      !.checked = w.elapsed,
                      !.timed_out = TimedOut(tv_usec, w.timeout),
                      !.pc = IF TimedOut(tv_usec, w.timeout) THEN "exit"
                             ELSE IF LoopCondition(w.ints_passed, dev.prev_tot_ints)
                             THEN "read" ELSE "exit"]
    /\ UNCHANGED <<dev, clk, irq, arithVars, lifeVars>>

\* After the loop: the count is stored and the interrupt enabled again, a 1
\* written to the descriptor.  armed counts these writes of one call and
\* obtained lists the counts its reads delivered.
WaitExit ==
    /\ w.pc = "exit"
    /\ dev' = [dev EXCEPT !.prev_tot_ints = w.ints_passed]
    /\ w' = [WaitFresh EXCEPT !.ints_passed = w.ints_passed,
                              !.timed_out = w.timed_out,
                              !.entry_prev = w.entry_prev,
                              !.obtained = w.obtained,
                              !.armed = w.armed + 1]
    /\ UNCHANGED <<clk, irq, arithVars, lifeVars>>

\* The wall clock advances by one tick; elapsed is the time since the call,
\* counted up to one tick past the timeout interval.
Tick ==
    /\ clk' = (clk + 1) % TicksPerSecond
    /\ w' = IF w.pc = "idle" \/ w.elapsed >= TIMEOUT_US + TickUs THEN w
            ELSE [w EXCEPT !.elapsed = w.elapsed + TickUs]
    /\ UNCHANGED <<dev, irq, arithVars, lifeVars>>

\* The core raises its interrupt and the kernel counts it.
Interrupt ==
    /\ irq.count < MaxInts
    /\ irq' = [irq EXCEPT !.count = irq.count + 1]
    /\ UNCHANGED <<dev, w, clk, arithVars, lifeVars>>

\* A step is started as Multiply_m starts its first; nops counts the steps
\* started.  The core is idle when it is started: every step started before
\* has raised its interrupt.
StartStep ==
    /\ w.pc = "idle"
    /\ nops = 0 \/ w.armed # 0
    /\ nops < MaxInts
    /\ irq.count = nops
    /\ hw' = MME1536_StartSingle_m(sess, Entered(hw), OPERAND_3, OPERAND_0, OPERAND_1)
    /\ nops' = nops + 1
    /\ w' = WaitFresh
    /\ UNCHANGED <<sess, inst, call, tv, dev, clk, irq, lifeVars>>

\* MME1536_WaitUntilReady called after a start.
WaitAfterStart ==
    /\ nops > 0
    /\ w.armed = 0
    /\ WaitEnter

\* The step under way completes and the core raises its interrupt.
StepDone ==
    /\ irq.count < nops
    /\ Interrupt

(***************************************************************************)
(* Two callers in MME1536_Multiply_m on one structure, one step per call   *)
(* the function makes.  call holds, for each caller, the statement it is   *)
(* at (pc, 0 before the first and 8 after the last), its operands and its  *)
(* result; hit[c] says that the other caller wrote to the core after c's   *)
(* first start and before c's read-back, and overlap that a caller stepped *)
(* while the other was between its first and its last statement.           *)
(***************************************************************************)
Callers == {1, 2}

\* Caller c has made a statement that left the core as h; wrote says whether
\* the statement wrote an operand or the control register.
Stepped(c, h, wrote) ==
    /\ hw' = h
    /\ call' = [call EXCEPT
                   !.pc[c] = @ + 1,
                   !.hit = [d \in Callers |->
                               @[d] \/ (d # c /\ wrote /\ call.pc[d] \in 4 .. 7)],
                   !.overlap = @ \/ (\E d \in Callers \ {c} : call.pc[d] \in 1 .. 7)]
    /\ UNCHANGED <<sess, inst, tv, nops, dev, lifeVars, waitVars>>

\* MME1536_SetOperand_m of x, of y and of R2.
CallerLoad(c) ==
    /\ call.pc[c] \in 0 .. 2
    /\ LET data == CASE call.pc[c] = 0 -> ToWords(call.x[c], sess.words)
                      [] call.pc[c] = 1 -> ToWords(call.y[c], sess.words)
                      [] OTHER -> sess.R2
       IN Stepped(c, MME1536_SetOperand_m(sess, Entered(hw), data, call.pc[c]).hw, TRUE)

\* MME1536_StartSingle_m, of x * y and of the product with R2.
CallerStart(c) ==
    /\ call.pc[c] \in {3, 5}
    /\ Stepped(c, IF call.pc[c] = 3
                  THEN MME1536_StartSingle_m(sess, Entered(hw), OPERAND_3, OPERAND_0,
                                             OPERAND_1)
                  ELSE MME1536_StartSingle_m(sess, Entered(hw), OPERAND_3, OPERAND_2,
                                             OPERAND_3),
               TRUE)

\* MME1536_WaitUntilReady returning with the core idle.
CallerWait(c) ==
    /\ call.pc[c] \in {4, 6}
    /\ Stepped(c, WaitUntilReady(Entered(hw), "ready"), FALSE)

\* MME1536_GetOperand_m of slot 3 into result.
CallerRead(c) ==
    /\ call.pc[c] = 7
    /\ \E g \in {MME1536_GetOperand_m(sess, Entered(hw), OPERAND_3)} :
          /\ hw' = g.hw
          /\ call' = [call EXCEPT
                         !.pc[c] = 8,
                         !.result[c] = g.buffer,
                         !.hit = [d \in Callers |->
                                     @[d] \/ (d # c /\ call.pc[d] \in 4 .. 7)],
                         !.overlap = @ \/ (\E d \in Callers \ {c} :
                                               call.pc[d] \in 1 .. 7)]
    /\ UNCHANGED <<sess, inst, tv, nops, dev, lifeVars, waitVars>>

\* The core finishes the step under way before any caller's wait returns.
CoreCompletes ==
    /\ hw.step # NoStep
    /\ hw' = HwComplete(hw)
    /\ UNCHANGED <<sess, inst, call, tv, nops, dev, lifeVars, waitVars>>

(***************************************************************************)
(* The specifications.                                                     *)
(***************************************************************************)
\* A program that installs moduli and computes with them.
Init ==
    /\ ArithInit
    /\ tv = NoVector
    /\ dev = DevFresh
    /\ LifeIdle
    /\ WaitIdle

Next == CallUpdateModulus \/ CallMultiply_m \/ CallMME_m

Spec == Init /\ [][Next]_vars

\* A program that installs moduli of any length.
NextWidth == CallUpdateModulusAny

SpecWidth == Init /\ [][NextWidth]_vars

\* A program that calls MME, with or without installing moduli.
InitMME ==
    /\ ArithInit
    /\ tv \in TestVectors
    /\ dev = DevFresh
    /\ LifeIdle
    /\ WaitIdle

NextMME == CallUpdateModulus \/ CallMME

SpecMME == InitMME /\ [][NextMME]_vars

\* A program that opens and closes the device; standard input may be closed.
InitLife ==
    /\ ArithIdle
    /\ dev = DevFresh
    /\ os \in {[fds |-> f, maps |-> {}, heap |-> {}] : f \in {{0, 1, 2}, {1, 2}}}
    /\ life = LifeFresh
    /\ WaitIdle

NextLife == CallInitialize \/ CallClean

SpecLife == InitLife /\ [][NextLife]_vars

\* A program that waits for the core, at any instant of the second.
InitWait ==
    /\ ArithIdle
    /\ LifeIdle
    /\ w = WaitFresh
    /\ clk \in 0 .. (TicksPerSecond - 1)
    /\ \E c \in 0 .. 1 : \E p \in {0, c} :
          /\ irq = [count |-> c, delivered |-> c]
          /\ dev = [DevFresh EXCEPT !.prev_tot_ints = p]

NextWait == WaitEnter \/ WaitRead \/ WaitClock \/ WaitExit \/ Tick \/ Interrupt

SpecWait == InitWait /\ [][NextWait]_vars

\* A program that starts steps and waits for each, at any instant of the
\* second; Initialize found no interrupt counted.
InitPairs ==
    /\ ArithIdle
    /\ LifeIdle
    /\ w = WaitFresh
    /\ clk \in 0 .. (TicksPerSecond - 1)
    /\ irq = [count |-> 0, delivered |-> 0]
    /\ dev = DevFresh

NextPairs ==
    StartStep \/ WaitAfterStart \/ WaitRead \/ WaitClock \/ WaitExit \/ Tick \/ StepDone

SpecPairs == InitPairs /\ [][NextPairs]_vars

\* Two callers that multiply on one structure after UpdateModulus, each with
\* operands 1 or m - 1.
InitRace ==
    /\ \E n \in Widths :
          LET m == 2 ^ n - 1
              r == MME1536_UpdateModulus(
                       [n |-> 0, words |-> 0, part |-> 0, R2 |-> ZeroBuffer(WORDS_TOT)],
                       HwReset, ToWords(m, n \div WordBits), n)
          IN /\ sess = r.s
             /\ hw = Entered(r.hw)
             /\ inst = [n |-> n, m |-> m]
             /\ \E x \in [Callers -> {1, m - 1}], y \in [Callers -> {1, m - 1}] :
                    call = [op |-> "Multiply_m", pc |-> [c \in Callers |-> 0],
                            x |-> x, y |-> y,
                            result |-> [c \in Callers |-> << >>],
                            hit |-> [c \in Callers |-> FALSE],
                            overlap |-> FALSE]
    /\ nops = 0
    /\ tv = NoVector
    /\ dev = DevFresh
    /\ LifeIdle
    /\ WaitIdle

NextRace ==
    \/ \E c \in Callers : CallerLoad(c) \/ CallerStart(c) \/ CallerWait(c) \/ CallerRead(c)
    \/ CoreCompletes

SpecRace == InitRace /\ [][NextRace]_vars

\* A program that has installed the largest modulus of some width and computes
\* while the core may be late and the exponent length may be wrong.
InitProto ==
    /\ \E n \in Widths :
          LET m == 2 ^ n - 1
              r == MME1536_UpdateModulus(
                       [n |-> 0, words |-> 0, part |-> 0, R2 |-> ZeroBuffer(WORDS_TOT)],
                       HwReset, ToWords(m, n \div WordBits), n)
          IN /\ sess = r.s
             /\ hw = r.hw
             /\ inst = [n |-> n, m |-> m]
    /\ call = NoCall
    /\ nops = 0
    /\ tv \in ProtoVectors
    /\ dev = DevFresh
    /\ LifeIdle
    /\ WaitIdle

NextProto == RunMultiply_m \/ RunExp_m \/ RunMME_m \/ RunMME

SpecProto == InitProto /\ [][NextProto]_vars

\* A program that calls the operand codec, on a core that was just reset or
\* that holds anything.
InitCodec ==
    /\ sess \in CodecSessions
    /\ hw \in {HwReset, HwFilled}
    /\ inst = NoModulus
    /\ call = NoCall
    /\ tv = NoVector
    /\ nops = 0
    /\ dev = DevFresh
    /\ LifeIdle
    /\ WaitIdle

NextCodec == CallSetOperand \/ CallSetOperand_m \/ CallGetOperand \/ CallGetOperand_m

SpecCodec == InitCodec /\ [][NextCodec]_vars

NextIssue ==
    \/ CallStartSingle
    \/ CallStartSingle_m
    \/ CallStartAuto
    \/ CallStartAuto_m
    \/ CallSetExponent

\* A program that makes a start call or feeds an exponent, on a core that was
\* just reset or that holds anything.
SpecIssue == InitCodec /\ [][NextIssue]_vars

(***************************************************************************)
(* What the calls are to compute.                                          *)
(***************************************************************************)
RECURSIVE ModPower(_, _, _)
\* g^e mod m
ModPower(g, e, m) ==
    IF e = 0 THEN 1 % m
    ELSE LET half == ModPower(g, e \div 2, m)
             square == (half * half) % m
         IN IF e % 2 = 1 THEN (square * (g % m)) % m ELSE square

\* (g0^e0 * g1^e1) mod m
DoubleExp(g0, e0, g1, e1, m) == (ModPower(g0, e0, m) * ModPower(g1, e1, m)) % m

\* The modulus slot holds M written at width n.
SlotHolds(M, n) ==
    \A word \in 0 .. (WORDS_TOT - 1) :
        hw.mem[M_OFFSET + ADDR_STEP * word]
            = PaddedOperand(ToWords(M, n \div WordBits), n)[word]

\* The releases in rel that give back something acq acquired.
GivesBack(r) ==
    \E i \in 1 .. Len(life.acq) :
        r = Acquire(ReleaseOf(life.acq[i].call), life.acq[i].h)

\* acq read backwards, each acquisition replaced by its release.
ReverseReleases(acq) ==
    [i \in 1 .. Len(acq) |->
        Acquire(ReleaseOf(acq[Len(acq) + 1 - i].call), acq[Len(acq) + 1 - i].h)]

(***************************************************************************)
(* The properties.                                                         *)
(***************************************************************************)
\* C1: after UpdateModulus(m, n), the result of MME_m(g0, g1, e0, e1, t) is
\* the n-bit word array of (g0^e0 * g1^e1) mod m.
C1_MME_m_Result ==
    call.op = "MME_m" =>
        call.result = ToWords(DoubleExp(call.x, call.e0, call.y, call.e1, call.m),
                              call.n \div WordBits)

C1_Witness ==
    /\ call.op = "MME_m"
    /\ call.n = BITS_HIGH
    /\ call.e0 > 1 /\ call.e1 > 0 /\ call.e0 # call.e1
    /\ call.x > 1 /\ call.y > 1
    /\ call.result # ZeroBuffer(WORDS_HIGH)

\* C2: MME on a session that never called UpdateModulus returns the n-bit
\* word array of (g0^e0 * g1^e1) mod m, for every odd m below 2^n.
C2_MME_Result ==
    (call.op = "MME" /\ inst = NoModulus) =>
        call.result = ToWords(DoubleExp(call.x, call.e0, call.y, call.e1, call.m),
                              call.n \div WordBits)

\* C3: after UpdateModulus(m, n), the result of Multiply_m(x, y) is the n-bit
\* word array of x * y mod m.
C3_Multiply_m_Result ==
    call.op = "Multiply_m" =>
        call.result = ToWords((call.x * call.y) % call.m, call.n \div WordBits)

C3_Witness ==
    /\ call.op = "Multiply_m"
    /\ call.n = BITS_TOT
    /\ call.x * call.y > call.m
    /\ call.result # ZeroBuffer(WORDS_TOT)

\* C4: after UpdateModulus(m, n) the R2 buffer of WORDS_TOT words is the
\* little-endian word array of 2^(2n) mod m with every word above the value
\* zero, whatever the buffer held before the call.
C4_CachedR2 ==
    call.op = "UpdateModulus" =>
        sess.R2 = ToWords(ModPower(2, 2 * call.n, call.m), WORDS_TOT)

C4_Witness ==
    /\ call.op = "UpdateModulus"
    /\ call.n = BITS_LOW
    /\ \A word \in 0 .. (WORDS_TOT - 1) : call.old[word] = WordBase - 1
    /\ \A word \in 1 .. (WORDS_TOT - 1) : sess.R2[word] = 0

\* C5 as stated: once UpdateModulus has been called, after any further
\* UpdateModulus and MME calls the cached R2 is 2^(2n) mod M for the modulus M
\* held in the modulus slot, n being the session's width or the width M was
\* written at.
C5_CachedMatchesSlot ==
    inst # NoModulus =>
        \E n \in Widths : \E M \in 1 .. (2 ^ n - 1) :
            /\ SlotHolds(M, n)
            /\ \/ sess.R2 = ToWords(ModPower(2, 2 * sess.n, M), WORDS_TOT)
               \/ sess.R2 = ToWords(ModPower(2, 2 * n, M), WORDS_TOT)

\* C5 amended: once UpdateModulus has been called, after any further
\* UpdateModulus and MME calls the session's n and cached R2 are those of the
\* most recent UpdateModulus(m, n): R2 is 2^(2n) mod m for that m.
C5_CachedMatchesLastUpdate ==
    inst # NoModulus =>
        /\ sess.n = inst.n
        /\ sess.R2 = ToWords(ModPower(2, 2 * inst.n, inst.m), WORDS_TOT)

C5_Witness ==
    /\ call.op = "MME"
    /\ inst # NoModulus
    /\ call.m # inst.m
    /\ SlotHolds(call.m, call.n)

\* C6: Initialize returns failure whenever an acquisition fails (opening
\* /dev/mem, mapping the data region, opening the UIO device, mapping the
\* control region), and success only with both regions mapped.
C6_FailureReported ==
    /\ (life.pc \in {"initialized", "failed", "crashed"} /\ life.failed # "none")
           => (life.pc = "failed" /\ life.ret # 0)
    /\ life.pc = "initialized"
           => ({dev.data_ptr, dev.ctrl_ptr} \subseteq os.maps /\ dev.data_ptr # dev.ctrl_ptr)

\* C7: whenever Initialize returns failure, the process holds exactly what it
\* held before the call.
C7_FailureReleasesAll ==
    life.pc = "failed" => os = life.before

\* C8: Clean gives back each resource Initialize acquired exactly once, in
\* the exact reverse of the order of acquisition.
C8_CleanReverseOrder ==
    life.pc = "cleaned" =>
        /\ SelectSeq(life.rel, GivesBack) = ReverseReleases(life.acq)
        /\ os = life.before

C8_Witness ==
    /\ life.pc = "cleaned"
    /\ Len(life.acq) = 5
    /\ Len(life.rel) = 5

\* C9: with no interrupt counted since the call, WaitUntilReady leaves its
\* loop at the first time test made TIMEOUT_US or more after the call, at
\* whatever instant of the second the call was made: it never goes back to
\* read the counter after such a test.
C9_ReturnsAtDeadline ==
    ~(w.pc = "read" /\ irq.count = w.entry_count /\ w.checked >= TIMEOUT_US)

\* C10: WaitUntilReady leaves its loop only with a count above the
\* prev_tot_ints it found at entry, or with TIMEOUT_US or more gone by since
\* the call.
C10_NoEarlyReturn ==
    w.pc = "exit" =>
        \/ w.ints_passed > w.entry_prev
        \/ w.checked >= TIMEOUT_US

C10_Witness ==
    /\ w.pc = "exit"
    /\ w.timed_out
    /\ w.ints_passed <= w.entry_prev
    /\ w.checked >= TIMEOUT_US

\* C11: when WaitUntilReady has returned, by completion or by timeout,
\* prev_tot_ints is the count the most recent read of the interrupt counter
\* obtained (a read of this call or, when none of them delivered a count, the
\* read before the call that prev_tot_ints came from), and the call has
\* written a 1 to the interrupt descriptor exactly once, after its loop.
C11_ExitState ==
    (w.pc = "idle" /\ w.armed # 0) =>
        /\ w.armed = 1
        /\ dev.prev_tot_ints = IF w.obtained # << >>
                               THEN w.obtained[Len(w.obtained)]
                               ELSE w.entry_prev

ProtoCalls == {"Multiply_m", "Exp_m", "MME_m", "MME"}

\* C12: whichever waits of a Multiply_m, Exp_m, MME_m or MME time out, and
\* whether or not the core finishes afterwards, the call goes on to its end:
\* its writes of operands, its control words, its FIFO entries and the reads
\* of its final read-back are those of the same call with no timeout, in the
\* same order.  The calls return nothing, so no error reaches the caller.
C12_TimeoutAdvisory ==
    call.op \in ProtoCalls =>
        Issued(hw.log) = call.reference

\* The control words of a log that start a step.
StartWords(log) == {i \in 1 .. Len(log) : log[i].op = "control" /\ 23 \in log[i].word}

C12_Witness ==
    /\ call.op = "MME_m"
    /\ call.t % WordBits = 0
    /\ call.waits[1] = "never"
    /\ call.waits[6] = "never"
    /\ Cardinality(StartWords(hw.log)) = 6
    /\ hw.log[Len(hw.log)].op = "read"

RECURSIVE AfterWaits(_, _)
\* What a log holds after its k-th wait.
AfterWaits(log, k) ==
    IF k = 0 \/ log = << >> THEN log
    ELSE AfterWaits(Tail(log), IF Head(log).op = "wait" THEN k - 1 ELSE k)

\* The number of waits a call makes before it hands t to SetExponent.
WaitsBeforeExponent(op) == IF op = "Exp_m" THEN 2 ELSE 4

\* C13: an Exp_m, MME_m or MME whose exponent length is no multiple of the
\* word size writes no control word with the start bit after SetExponent has
\* found that out, and an MME whose n is none of the three widths writes no
\* control word with the start bit at all.
C13_InvalidAborts ==
    call.op \in {"Exp_m", "MME_m", "MME"} =>
        /\ call.t % WordBits # 0
               => StartWords(AfterWaits(hw.log, WaitsBeforeExponent(call.op))) = {}
        /\ (call.op = "MME" /\ call.n \notin Widths)
               => StartWords(hw.log) = {}

\* C14: SetOperand, SetOperand_m, GetOperand and GetOperand_m called with an
\* operand identifier that names no slot, or with a length (the structure's n
\* for the _m calls) that is none of the three widths, return -1 and make no
\* access to the core: no write and no read of the data region, no write to
\* the control register.
C14_InvalidRejected ==
    (/\ call.op \in {"SetOperand", "SetOperand_m", "GetOperand", "GetOperand_m"}
     /\ (call.operand \notin Slots \/ call.length \notin Widths))
        => (call.ret = -1 /\ hw.log = << >>)

\* A GetOperand that follows a successful SetOperand of the same slot.
GetAfterSet ==
    /\ call.op = "GetOperand"
    /\ call.prev.op = "SetOperand"
    /\ call.prev.ret = 0
    /\ call.prev.operand = call.operand

\* C15: for each working slot and each width, GetOperand(slot, w) right after
\* a successful SetOperand(data, slot, w) returns 0 and the words of data; and
\* GetOperand(slot, BITS_TOT) right after a BITS_LOW or BITS_HIGH SetOperand
\* returns the data in its half of the slot and zero in every other word,
\* whatever the slot held before.
C15_RoundTrip ==
    (GetAfterSet /\ call.operand \in Operands) =>
        /\ call.length = call.prev.length
               => (call.ret = 0 /\ call.buffer = call.prev.data)
        /\ (call.length = BITS_TOT /\ call.prev.length = BITS_LOW)
               => \A word \in 0 .. (WORDS_TOT - 1) :
                      call.buffer[word] = IF word < WORDS_LOW
                                          THEN call.prev.data[word] ELSE 0
        /\ (call.length = BITS_TOT /\ call.prev.length = BITS_HIGH)
               => \A word \in 0 .. (WORDS_TOT - 1) :
                      call.buffer[word] = IF word >= WORDS_LOW
                                          THEN call.prev.data[word - WORDS_LOW] ELSE 0

C15_Witness ==
    /\ GetAfterSet
    /\ call.operand = OPERAND_2
    /\ call.prev.length = BITS_HIGH
    /\ call.length = BITS_TOT
    /\ call.buffer[0] = 0
    /\ call.buffer[WORDS_LOW] # 0
    /\ hw.mem[OP1_OFFSET] = WordBase - 1

\* C16 as stated: GetOperand and GetOperand_m take the modulus slot as
\* SetOperand and SetOperand_m do: after a successful SetOperand(m, MODULUS, w)
\* a GetOperand(MODULUS, w) returns 0 and the words of m.
C16_ModulusReadBack ==
    (/\ call.op \in {"GetOperand", "GetOperand_m"}
     /\ call.operand = MODULUS
     /\ call.prev.op \in {"SetOperand", "SetOperand_m"}
     /\ call.prev.operand = MODULUS
     /\ call.prev.ret = 0
     /\ call.prev.length = call.length)
        => (call.ret = 0 /\ call.buffer = call.prev.data)

\* C16 amended: SetOperand and SetOperand_m take the four working slots and
\* the modulus slot; GetOperand and GetOperand_m take the four working slots
\* only: called for the modulus slot they return -1, make no access to the
\* core and give back no word, also right after the modulus was written.
C16_ModulusNotReadable ==
    /\ (call.op \in {"SetOperand", "SetOperand_m"} /\ call.length \in Widths)
           => (call.ret = 0 <=> call.operand \in Slots)
    /\ (call.op = "GetOperand" /\ call.length \in Widths)
           => (call.ret = 0 <=> call.operand \in Operands)
    /\ call.op = "GetOperand_m"
           => (call.ret = 0 <=> call.operand \in Operands)
    /\ (call.op \in {"GetOperand", "GetOperand_m"} /\ call.operand = MODULUS)
           => (call.ret = -1 /\ hw.log = << >> /\ call.buffer = << >>)

C16_Witness ==
    /\ call.op = "GetOperand"
    /\ call.operand = MODULUS
    /\ call.length = BITS_LOW
    /\ call.prev.op = "SetOperand"
    /\ call.prev.operand = MODULUS
    /\ call.prev.length = BITS_LOW
    /\ call.prev.ret = 0
    /\ call.ret = -1

\* The FIFO entry that packs half a of e1's word with half b of e0's word.
Packed(a, b) == DataWrite(FIFO_OFFSET, a * HalfBase + b)

\* C17: SetExponent(e0, e1, t) with both exponents and t a multiple of the
\* word size writes exactly 2*(t/32) entries to the FIFO port and nothing else,
\* going from word t/32-1 down to word 0 and writing for word i first the upper
\* half of e1[i] over the upper half of e0[i], then the lower half of e1[i]
\* over the lower half of e0[i]; with any other t it writes nothing at all.
C17_FifoEntries ==
    (call.op = "SetExponent" /\ call.e1 # NULL) =>
        IF call.t % WordBits # 0
        THEN hw.log = << >>
        ELSE LET words == call.t \div WordBits
             IN /\ Len(hw.log) = 2 * words
                /\ \A k \in 0 .. (words - 1) :
                      LET i == words - 1 - k
                      IN /\ hw.log[2 * k + 1]
                              = Packed(UpperHalf(call.e1[i]), UpperHalf(call.e0[i]))
                         /\ hw.log[2 * k + 2]
                              = Packed(LowerHalf(call.e1[i]), LowerHalf(call.e0[i]))

C17_Witness ==
    /\ call.op = "SetExponent"
    /\ call.e1 # NULL
    /\ call.e1 # call.e0
    /\ call.t = MaxExpWords * WordBits
    /\ Len(hw.log) = 2 * MaxExpWords
    /\ hw.log[1] # hw.log[2]
    /\ hw.log[1] # hw.log[3]

\* A SetExponent without e1 that wrote entries.
LoneExponentFed ==
    /\ call.op = "SetExponent"
    /\ call.e1 = NULL
    /\ call.t % WordBits = 0
    /\ call.t > 0

\* C18 as stated: without e1, the first entry written for each word i has
\* the upper half of e0[i] in its upper half and zero in its lower half.
C18_UpperHalfLeftJustified ==
    LoneExponentFed =>
        \A k \in 0 .. ((call.t \div WordBits) - 1) :
            hw.log[2 * k + 1]
                = Packed(UpperHalf(call.e0[(call.t \div WordBits) - 1 - k]), 0)

\* C18 amended: without e1, the first entry written for each word i has the
\* upper half of e0[i] in its lower half and zero in its upper half, the
\* place e0 has when both exponents are given; the second entry has the lower
\* half of e0[i] in the same place.
C18_UpperHalfRightJustified ==
    LoneExponentFed =>
        /\ Len(hw.log) = 2 * (call.t \div WordBits)
        /\ \A k \in 0 .. ((call.t \div WordBits) - 1) :
              LET i == (call.t \div WordBits) - 1 - k
              IN /\ hw.log[2 * k + 1] = Packed(0, UpperHalf(call.e0[i]))
                 /\ hw.log[2 * k + 2] = Packed(0, LowerHalf(call.e0[i]))

C18_Witness ==
    /\ LoneExponentFed
    /\ call.t = MaxExpWords * WordBits
    /\ UpperHalf(call.e0[MaxExpWords - 1]) # 0
    /\ hw.log[1].val = UpperHalf(call.e0[MaxExpWords - 1])

StartCalls == {"StartSingle", "StartSingle_m", "StartAuto", "StartAuto_m"}

\* C19: each call of StartSingle, StartSingle_m, StartAuto and StartAuto_m
\* writes the control register exactly twice and accesses nothing else: the
\* first word has bit 23 set, the second is the first with bit 23 cleared and
\* every other bit the same, so that the register's start bit is 0 when the
\* call has returned.
C19_TwoControlWrites ==
    call.op \in StartCalls =>
        /\ Len(hw.log) = 2
        /\ hw.log[1].op = "control"
        /\ hw.log[2].op = "control"
        /\ 23 \in hw.log[1].word
        /\ hw.log[2].word = hw.log[1].word \ {23}
        /\ hw.ctrl = hw.log[2].word
        /\ 23 \notin hw.ctrl

C19_Witness ==
    /\ call.op = "StartAuto"
    /\ call.p_sel = 2
    /\ Len(hw.log) = 2
    /\ hw.log[1].word = {31, 23, 22}
    /\ hw.log[2].word = {31, 22}

\* C20: for p_sel in 1..3 and destination, x_op, y_op in 0..3, the first word
\* StartSingle writes has p_sel in bits 31:30, destination in bits 29:28, x_op
\* in bits 27:26, y_op in bits 25:24, bit 23 set and bit 22 clear, whatever the
\* register held; the first word StartAuto writes has p_sel in bits 31:30,
\* bits 23 and 22 set and every selector bit 29:24 clear.
C20_ControlWordEncoding ==
    /\ (call.op = "StartSingle" /\ call.p_sel \in 1 .. 3) =>
           /\ Field(hw.log[1].word, 30) = call.p_sel
           /\ Field(hw.log[1].word, 28) = call.destination
           /\ Field(hw.log[1].word, 26) = call.x_op
           /\ Field(hw.log[1].word, 24) = call.y_op
           /\ 23 \in hw.log[1].word
           /\ 22 \notin hw.log[1].word
    /\ (call.op = "StartAuto" /\ call.p_sel \in 1 .. 3) =>
           /\ Field(hw.log[1].word, 30) = call.p_sel
           /\ 23 \in hw.log[1].word
           /\ 22 \in hw.log[1].word
           /\ hw.log[1].word \cap (24 .. 29) = {}

C20_Witness ==
    /\ call.op = "StartSingle"
    /\ call.p_sel = 3
    /\ call.destination = 2
    /\ call.x_op = 1
    /\ call.y_op = 3
    /\ 22 \in call.before
    /\ hw.log[1].word = {31, 30, 29, 26, 25, 24, 23} \cup (0 .. 21)

\* The starts and the waits of a log, in order.
Events(log) ==
    LET kept == SelectSeq(log, LAMBDA a : a.op = "wait"
                                            \/ (a.op = "control" /\ 23 \in a.word))
    IN [i \in 1 .. Len(kept) |-> IF kept[i].op = "wait" THEN "wait" ELSE "start"]

\* k starts, each followed by a wait.
Pairs(k) == [i \in 1 .. (2 * k) |-> IF i % 2 = 1 THEN "start" ELSE "wait"]

\* C21 as stated: Exp_m calls WaitUntilReady exactly five times, once after
\* each step it starts.
C21_FiveWaits == call.op = "Exp_m" => Events(hw.log) = Pairs(5)

\* C21 amended: Exp_m starts four steps (g into Montgomery form, R, the
\* auto-run, the post-correction) and calls WaitUntilReady exactly four times,
\* once after each of them, whatever its arguments and however the waits end.
C21_FourWaits == call.op = "Exp_m" => Events(hw.log) = Pairs(4)

C21_Witness ==
    /\ call.op = "Exp_m"
    /\ call.t % WordBits = 0
    /\ call.waits = AllReady
    /\ Len(SelectSeq(hw.log, LAMBDA a : a.op = "wait")) = 4
    /\ call.result # << >>

\* C22 as stated: MME_m and MME each call WaitUntilReady exactly seven times,
\* once after each step they start.
C22_SevenWaits == call.op \in {"MME_m", "MME"} => Events(hw.log) = Pairs(7)

\* C22 amended: MME_m and MME each start six steps (both bases into
\* Montgomery form, R, the product of the bases, the auto-run, the
\* post-correction) and call WaitUntilReady exactly six times, once after each
\* of them, whatever their arguments and however the waits end.
C22_SixWaits == call.op \in {"MME_m", "MME"} => Events(hw.log) = Pairs(6)

C22_Witness ==
    /\ call.op = "MME"
    /\ call.n = BITS_TOT
    /\ call.waits[3] = "never"
    /\ Len(SelectSeq(hw.log, LAMBDA a : a.op = "wait")) = 6
    /\ Cardinality(StartWords(hw.log)) = 6

\* C23: MME leaves the structure's n, words, part and R2 buffer as they were,
\* whatever it is called with and whatever the structure held.
C23_MMEKeepsSession ==
    [][(call'.op = "MME" /\ nops' = nops + 1) => sess' = sess]_vars

C23_Witness ==
    /\ call.op = "MME"
    /\ inst # NoModulus
    /\ sess.n = inst.n
    /\ call.n # sess.n
    /\ sess.part = PartOf(inst.n, 0)
    /\ sess.R2 # ZeroBuffer(WORDS_TOT)
    /\ sess.R2 = MME1536_ComputeR2(ZeroBuffer(WORDS_TOT),
                                   ToWords(inst.m, inst.n \div WordBits), inst.n)

\* C24: on a structure whose n is one of the three widths and whose part is
\* the selector of that n, and on any core, each _m call does what its
\* counterpart does when given the structure's n or part: SetOperand_m makes
\* the writes and returns the value of SetOperand with n, GetOperand_m makes
\* the control write and the reads and returns the value and the words of
\* GetOperand with n, StartSingle_m and StartAuto_m write the two control words
\* of StartSingle and StartAuto with part.  The calls are compared in every
\* state from which the program makes a further call.
C24_SessionCallsEquivalent ==
    (nops < MaxCodecOps /\ sess.n \in Widths /\ sess.part = PartOf(sess.n, 0)) =>
        /\ \A operand \in OperandIds, data \in OperandBuffers(sess.n) :
               MME1536_SetOperand_m(sess, Entered(hw), data, operand)
                   = MME1536_SetOperand(Entered(hw), data, operand, sess.n)
        /\ \A operand \in OperandIds :
               MME1536_GetOperand_m(sess, Entered(hw), operand)
                   = MME1536_GetOperand(Entered(hw), operand, sess.n)
        /\ \A destination \in Selectors, x_op \in Selectors, y_op \in Selectors :
               MME1536_StartSingle_m(sess, Entered(hw), destination, x_op, y_op)
                   = MME1536_StartSingle(Entered(hw), sess.part, destination,
                                         x_op, y_op)
        /\ MME1536_StartAuto_m(sess, Entered(hw))
               = MME1536_StartAuto(Entered(hw), sess.part)

C24_Witness ==
    /\ call.op = "GetOperand_m"
    /\ call.ret = 0
    /\ sess.n = BITS_HIGH
    /\ sess.part = HIGH_PART
    /\ call.prev.op = "SetOperand_m"
    /\ call.prev.operand = call.operand
    /\ call.buffer = call.prev.data
    /\ call.buffer = MME1536_GetOperand(hw, call.operand, BITS_HIGH).buffer

\* The kinds of the accesses of a log, in order.
OpsOf(log) == [i \in 1 .. Len(log) |-> log[i].op]

Repeat(x, k) == [i \in 1 .. k |-> x]

\* C26: in Multiply_m, Exp_m, MME_m and MME every start, the control word
\* with the start bit and the same word without it, is followed at once by
\* the call's wait: no write of an operand, no FIFO entry, no other control
\* word and no read comes between them.  Multiply_m writes its three operands,
\* makes exactly two such starts with their waits, and reads slot 3 back.
C26_StartThenWait ==
    call.op \in ProtoCalls =>
        /\ \A i \in StartWords(hw.log) :
               /\ i + 2 <= Len(hw.log)
               /\ hw.log[i + 1] = ControlWrite(hw.log[i].word \ {23})
               /\ hw.log[i + 2].op = "wait"
        /\ call.op = "Multiply_m" =>
               /\ OpsOf(hw.log)
                      = Repeat("write", 3 * WORDS_TOT)
                          \o <<"control", "control", "wait",
                               "control", "control", "wait", "control">>
                          \o Repeat("read", sess.words)
               /\ \A i \in 1 .. Len(hw.log) :
                      hw.log[i].op = "read" =>
                          /\ hw.log[i].addr >= OP3_OFFSET
                          /\ hw.log[i].addr < OP3_OFFSET + ADDR_STEP * WORDS_TOT

C26_Witness ==
    /\ call.op = "Multiply_m"
    /\ call.waits[1] = "late"
    /\ Events(hw.log) = Pairs(2)
    /\ hw.log[Len(hw.log)].op = "read"
    /\ hw.log[3 * WORDS_TOT + 3].op = "wait"

\* The entries written to the FIFO port, the auto-run starts and the
\* single-step starts of a log, by their places in it.
FifoEntries(log) ==
    {i \in 1 .. Len(log) : log[i].op = "write" /\ log[i].addr = FIFO_OFFSET}

AutoStarts(log) == {i \in StartWords(log) : 22 \in log[i].word}

SingleStarts(log) == {i \in StartWords(log) : 22 \notin log[i].word}

\* C27: an Exp_m, MME_m or MME with a valid t writes all its 2*(t/32) FIFO
\* entries before it starts the auto-run; it starts the auto-run exactly once,
\* after every pre-computation step (two in Exp_m, four in MME_m and MME) was
\* started and waited for; and after the wait of the auto-run it starts
\* exactly one single step, with destination slot 3, waits for it, and only
\* then reads slot 3.
C27_FeedAutoPost ==
    (call.op \in {"Exp_m", "MME_m", "MME"} /\ call.t % WordBits = 0) =>
        /\ Cardinality(FifoEntries(hw.log)) = 2 * (call.t \div WordBits)
        /\ Cardinality(AutoStarts(hw.log)) = 1
        /\ \A a \in AutoStarts(hw.log) :
               /\ \A f \in FifoEntries(hw.log) : f < a
               /\ Events(SubSeq(hw.log, 1, a - 1))
                      = Pairs(WaitsBeforeExponent(call.op))
               /\ Events(SubSeq(hw.log, a + 1, Len(hw.log))) = <<"wait", "start", "wait">>
               /\ \A p \in SingleStarts(hw.log) :
                      p > a => /\ Field(hw.log[p].word, 28) = OPERAND_3
                               /\ \A i \in 1 .. Len(hw.log) :
                                      hw.log[i].op = "read" => i > p + 2

C27_Witness ==
    /\ call.op = "MME_m"
    /\ call.t = MaxExpWords * WordBits
    /\ call.waits = AllReady
    /\ Cardinality(FifoEntries(hw.log)) = 2 * MaxExpWords
    /\ Cardinality(SingleStarts(hw.log)) = 5
    /\ hw.log[Len(hw.log)].op = "read"

\* C29: prev_tot_ints never decreases: when WaitUntilReady has returned, by
\* completion or by timeout, and also when none of its reads delivered a
\* count, prev_tot_ints is at least what it was when the call was entered.
C29_CountNeverDecreases ==
    (w.pc = "idle" /\ w.armed # 0) => dev.prev_tot_ints >= w.entry_prev

\* C30: after any sequence of UpdateModulus calls, with n supported or not,
\* the structure's n and part belong together, (BITS_LOW, LOW_PART),
\* (BITS_HIGH, HIGH_PART) or (BITS_TOT, TOT_PIPELINE), and words is n / 32.
C30_WidthConsistent ==
    call.op = "UpdateModulus" =>
        /\ <<sess.n, sess.part>> \in {<<BITS_LOW, LOW_PART>>, <<BITS_HIGH, HIGH_PART>>,
                                     <<BITS_TOT, TOT_PIPELINE>>}
        /\ sess.words = sess.n \div WordBits

\* C28: in a sequence of start/wait pairs, whenever WaitUntilReady has
\* returned without timing out, the step started last before it has completed:
\* the core has raised as many interrupts as steps were started.
C28_WaitMeansLastStepDone ==
    (nops > 0 /\ w.pc = "idle" /\ w.armed # 0 /\ ~w.timed_out) => irq.count = nops

\* What caller c's call of Multiply_m has to return.
Expected(c) == (call.x[c] * call.y[c]) % inst.m

Returned(c) == FromWords(call.result[c], sess.words)

\* C25: the driver does not keep two callers of Multiply_m apart.  With the
\* calls run one at a time, no caller stepping while the other is between its
\* first and last statement, each call returns x * y mod m of its own
\* operands.
C25_SerialCallsCorrect ==
    \A c \in Callers :
        (call.pc[c] = 8 /\ ~call.overlap) => Returned(c) = Expected(c)

\* With the calls run together a caller has returned something else than its
\* product after the other caller wrote between its start and its read-back.
C25_Witness ==
    \E c \in Callers :
        /\ call.pc[c] = 8
        /\ call.hit[c]
        /\ Returned(c) # Expected(c)

\* The value the call wrote to addr first.
Written(log, addr) ==
    SelectSeq(log, LAMBDA a : a.op = "write" /\ a.addr = addr)[1].val

\* C31: the R2 operand MME writes to slot 3 is determined by m and n: each
\* of the n / 32 words it takes from its R2 buffer is the word of
\* 2^(2n) mod m, zero above the value, whatever malloc's block held.
C31_R2FromModulus ==
    call.op = "MME" =>
        \A word \in 0 .. (call.n \div WordBits - 1) :
            Written(hw.log, OP3_OFFSET
                            + ADDR_STEP * (PartFirst(PartOf(call.n, 0)) + word))
                = ToWords(ModPower(2, 2 * call.n, call.m), call.n \div WordBits)[word]

=============================================================================
